---- MODULE Spec2Model ----
(***************************************************************************)
(* Recipe extraction pipeline of alon-recipes: the extract-recipe edge     *)
(* function (supabase/functions/extract-recipe/index.ts) and the           *)
(* deterministic ingredient parser it falls back to.                       *)
(*                                                                         *)
(* Specifications: Spec (one request), SpecTwo (two requests at the same   *)
(* time), SpecParse (parseIngredientHeuristic), SpecClean                  *)
(* (cleanHtmlContent), SpecForm (extraction started from RecipeForm.tsx),  *)
(* SpecJsonLd (extractFromJsonLd), SpecText (intelligentParse of           *)
(* src/services/recipeExtractor.ts), SpecSheet (up to two runs of          *)
(* supabase/functions/import-recipes-from-sheets over one database),       *)
(* SpecSave (saveRecipe of src/hooks/useRecipes.ts).                       *)
(*                                                                         *)
(* Text is modelled as a sequence of one-character strings, so that the    *)
(* regular expressions of the source are computed character by character.  *)
(* A character outside ASCII is written as its code point ("U+00BD").      *)
(***************************************************************************)
EXTENDS Integers, Sequences, FiniteSets, TLC

VARIABLES
  \* ---- one extraction request (serve handler) ----
  pc,               \* position of the handler
  url,              \* the request's url
  keyConfigured,    \* Deno.env.get('OPENAI_API_KEY') is set
  contentToExtract, \* video description, or NoText
  htmlContent,      \* fetched page
  jsonLdResult,     \* extractFromJsonLd(htmlContent)
  textToAnalyze,    \* which text is sent to the model
  aiResponse,       \* the variable aiResponse of the handler
  recipeData,       \* parsed model answer
  flatIngredients,  \* flat ingredient strings on hand
  flatInstructions, \* instruction strings on hand
  response,         \* the Response returned
  calls,            \* number of outbound calls made, per target
  history,          \* what each call to a model or a video lookup answered (ghost)
  \* ---- deterministic ingredient parser, called on its own ----
  line,             \* input of parseIngredientHeuristic
  parts,            \* how the input was put together (ghost)
  parsed,           \* result of parseIngredientHeuristic, or NotParsed
  \* ---- HTML normalizer, called on its own ----
  rawHtml,          \* input of cleanHtmlContent
  cleaned,          \* cleanHtmlContent(rawHtml) and cleanHtmlContent of that, or NotCleaned
  \* ---- the recipe form (RecipeForm.tsx) ----
  formData,         \* the form's recipe fields: websiteUrl, ingredients, instructions
  isExtracting,     \* the form's isExtracting state
  toast,            \* the last notification shown, or NoToast
  formPc,           \* "idle", or "calling" while extractFromUrl is awaited; "off"
  attempt,          \* the fields before the last extraction and its result (ghost)
  inFlight,         \* calls of extractFromUrl the form is waiting for (ghost)
  \* ---- two requests served at the same time ----
  reqs,             \* the handler's local variables, per request
  logs,             \* the answers each request was given, in order (ghost)
  \* ---- structured-data extractor, called on its own ----
  ldBlocks,         \* the contents of the page's application/ld+json scripts
  ldResult,         \* extractFromJsonLd of a page with these blocks, or NotExtracted
  \* ---- intelligentParse (recipeExtractor.ts), called on its own ----
  textContent,           \* content, the text given to intelligentParse
  textPc,                \* "start", "loop", "done"; "off"
  textLines,             \* lines
  lineIndex,             \* i, counted from 1
  inInstructionsSection,
  inIngredientsSection,
  foundInstructions,     \* instructions
  foundIngredients,      \* ingredients
  flagTrace,             \* the two flags after each line consumed (ghost)
  parseResult,           \* what intelligentParse returned, or NoParseResult
  \* ---- sheet import (import-recipes-from-sheets), up to two runs ----
  sheetRows,        \* rows, the first column of the sheet with its header
  runs,             \* the handler's local variables and its response, per run
  recipes,          \* the table recipes
  importedUrls,     \* the table imported_recipe_urls
  \* ---- saveRecipe (useRecipes.ts) ----
  savePc,           \* position in saveRecipe; "returned", "thrown"; "off"
  saveArg,          \* the recipe handed to saveRecipe
  recipeTitles,     \* the table recipes: the title stored under each id
  ingredientRows,   \* the table ingredients
  rowsBefore,       \* the table ingredients when saveRecipe was called (ghost)
  listed            \* the hook's list of recipes: "stale" or "fresh"

reqVars == <<pc, url, keyConfigured, contentToExtract, htmlContent, jsonLdResult,
             textToAnalyze, aiResponse, recipeData, flatIngredients,
             flatInstructions, response, calls, history>>
parseVars == <<line, parts, parsed>>
cleanVars == <<rawHtml, cleaned>>
\* what a request leaves alone
formVars == <<formData, isExtracting, toast, formPc, attempt, inFlight>>
twoVars == <<reqs, logs>>
ldVars == <<ldBlocks, ldResult>>
textVars == <<textContent, textPc, textLines, lineIndex, inInstructionsSection,
              inIngredientsSection, foundInstructions, foundIngredients, flagTrace,
              parseResult>>
sheetVars == <<sheetRows, runs, recipes, importedUrls>>
saveVars == <<savePc, saveArg, recipeTitles, ingredientRows, rowsBefore, listed>>
extraVars == <<ldVars, textVars, sheetVars, saveVars>>
offVars == <<parseVars, cleanVars, formVars, twoVars, extraVars>>
vars == <<reqVars, offVars>>

-----------------------------------------------------------------------------
(* Bounds of the model *)

\* longest run of blanks put between two tokens of a generated ingredient line
MaxGap == 2
\* longest flat ingredient list a page or a model answer carries
MaxIngredients == 2

-----------------------------------------------------------------------------
(* Characters and strings *)

Digits == {"0","1","2","3","4","5","6","7","8","9"}
LowerCase == <<"a","b","c","d","e","f","g","h","i","j","k","l","m",
               "n","o","p","q","r","s","t","u","v","w","x","y","z">>
UpperCase == <<"A","B","C","D","E","F","G","H","I","J","K","L","M",
               "N","O","P","Q","R","S","T","U","V","W","X","Y","Z">>

\* \d
IsDigit(c) == c \in Digits
\* \s
IsSpace(c) == c \in {" ", "\t", "\n", "\r"}
IsUpper(c) == \E i \in 1..26 : UpperCase[i] = c
IsLower(c) == \E i \in 1..26 : LowerCase[i] = c
\* \w
IsWordChar(c) == IsDigit(c) \/ IsUpper(c) \/ IsLower(c) \/ c = "_"
\* case folding of the i flag
ToLower(c) == IF IsUpper(c) THEN LowerCase[CHOOSE i \in 1..26 : UpperCase[i] = c] ELSE c

\* s.slice(n)
Drop(s, n) == SubSeq(s, n + 1, Len(s))
\* s.slice(0, n)
Take(s, n) == SubSeq(s, 1, n)

RECURSIVE DigitRun(_, _)
\* length of the longest run of digits of s starting at position i (\d+ is greedy)
DigitRun(s, i) ==
  IF i <= Len(s) /\ IsDigit(s[i]) THEN 1 + DigitRun(s, i + 1) ELSE 0

RECURSIVE SpaceRun(_, _)
\* length of the longest run of white space of s starting at position i
SpaceRun(s, i) ==
  IF i <= Len(s) /\ IsSpace(s[i]) THEN 1 + SpaceRun(s, i + 1) ELSE 0

RECURSIVE TrailingSpaceRun(_)
TrailingSpaceRun(s) ==
  IF Len(s) > 0 /\ IsSpace(s[Len(s)]) THEN 1 + TrailingSpaceRun(Take(s, Len(s) - 1)) ELSE 0

\* String.prototype.trim
Trim(s) ==
  LET a == SpaceRun(s, 1)
      t == Drop(s, a)
  IN  Take(t, Len(t) - TrailingSpaceRun(t))

\* the bullet character U+2022, one character
Bullet == "U+2022"

RECURSIVE BulletRun(_, _)
\* length matched by /^[-<bullet>\s]+/ from position i
BulletRun(s, i) ==
  IF i <= Len(s) /\ (s[i] \in {"-", Bullet} \/ IsSpace(s[i]))
  THEN 1 + BulletRun(s, i + 1) ELSE 0

\* s.replace(/^[-<bullet>\s]+/, '').trim()
StripBullets(s) == Trim(Drop(s, BulletRun(s, 1)))

-----------------------------------------------------------------------------
(* parseIngredientHeuristic: the deterministic ingredient parser *)

\* the fraction glyphs U+00BC.. of the character class, each one character
Glyphs == {"U+00BC","U+00BD","U+00BE","U+2153","U+2154","U+215B","U+215C","U+215D","U+215E"}

\* The alternatives of amountPattern, in the order the regular expression lists them.
amountPattern_IntegerFirst == <<"integer", "mixed", "range", "fraction", "decimal", "glyph">>

amountPattern == <<"mixed", "range", "fraction", "decimal", "integer", "glyph">>

\* Length of the match of one alternative at the start of s, 0 when it does not match.
\* Every \d+ and \s+ is followed by a character outside its class, so the greedy
\* run is the only length the alternative can match with.
AltMatch(alt, s) ==
  LET d1 == DigitRun(s, 1) IN
  CASE alt = "mixed" ->      \* \d+\s+\d+\/\d+
         LET w  == SpaceRun(s, d1 + 1)
             d2 == DigitRun(s, d1 + w + 1)
             p  == d1 + w + d2 + 1
             d3 == DigitRun(s, p + 1)
         IN  IF d1 > 0 /\ w > 0 /\ d2 > 0 /\ p <= Len(s) /\ s[p] = "/" /\ d3 > 0
             THEN p + d3 ELSE 0
    [] alt = "range" ->      \* \d+-\d+\/\d+
         LET d2 == DigitRun(s, d1 + 2)
             p  == d1 + 1 + d2 + 1
             d3 == DigitRun(s, p + 1)
         IN  IF d1 > 0 /\ d1 + 1 <= Len(s) /\ s[d1 + 1] = "-" /\ d2 > 0
                /\ p <= Len(s) /\ s[p] = "/" /\ d3 > 0
             THEN p + d3 ELSE 0
    [] alt = "fraction" ->   \* \d+\/\d+
         LET d2 == DigitRun(s, d1 + 2)
         IN  IF d1 > 0 /\ d1 + 1 <= Len(s) /\ s[d1 + 1] = "/" /\ d2 > 0
             THEN d1 + 1 + d2 ELSE 0
    [] alt = "decimal" ->    \* \d+\.\d+
         LET d2 == DigitRun(s, d1 + 2)
         IN  IF d1 > 0 /\ d1 + 1 <= Len(s) /\ s[d1 + 1] = "." /\ d2 > 0
             THEN d1 + 1 + d2 ELSE 0
    [] alt = "integer" ->    \* \d+
         d1
    [] alt = "glyph" ->      \* one fraction glyph
         IF Len(s) > 0 /\ s[1] \in Glyphs THEN 1 ELSE 0

RECURSIVE FirstAlt(_, _, _)
\* s.match(amountPattern): length of the first alternative, in order, that matches
FirstAlt(alts, k, s) ==
  IF k > Len(alts) THEN 0
  ELSE IF AltMatch(alts[k], s) > 0 THEN AltMatch(alts[k], s)
  ELSE FirstAlt(alts, k + 1, s)

amountMatch(s) == FirstAlt(amountPattern, 1, s)

\* The unit vocabulary, in the order of the alternation. The words are joined with |
\* and compiled as they are, so a "." in a word is the regular expression's wildcard.
UNIT_REGEX ==
  <<
     <<"t","e","a","s","p","o","o","n">>, <<"t","e","a","s","p","o","o","n","s">>, <<"t","s","p">>, <<"t","s","p",".">>,
     <<"t","a","b","l","e","s","p","o","o","n">>, <<"t","a","b","l","e","s","p","o","o","n","s">>, <<"t","b","s","p">>, <<"t","b","s","p",".">>,
     <<"c","u","p">>, <<"c","u","p","s">>, <<"o","u","n","c","e">>, <<"o","u","n","c","e","s">>,
     <<"o","z">>, <<"o","z",".">>, <<"p","o","u","n","d">>, <<"p","o","u","n","d","s">>,
     <<"l","b">>, <<"l","b",".">>, <<"l","b","s">>, <<"l","b","s",".">>,
     <<"g","r","a","m">>, <<"g","r","a","m","s">>, <<"g">>, <<"g",".">>,
     <<"k","i","l","o","g","r","a","m">>, <<"k","i","l","o","g","r","a","m","s">>, <<"k","g">>, <<"k","g",".">>,
     <<"m","i","l","l","i","l","i","t","e","r">>, <<"m","i","l","l","i","l","i","t","e","r","s">>, <<"m","l">>, <<"m","l",".">>,
     <<"l","i","t","e","r">>, <<"l","i","t","e","r","s">>, <<"l">>, <<"l",".">>,
     <<"p","i","n","c","h">>, <<"p","i","n","c","h","e","s">>, <<"d","a","s","h">>, <<"d","a","s","h","e","s">>,
     <<"c","l","o","v","e">>, <<"c","l","o","v","e","s">>, <<"s","l","i","c","e">>, <<"s","l","i","c","e","s">>,
     <<"p","a","c","k","a","g","e">>, <<"p","a","c","k","a","g","e","s">>, <<"c","a","n">>, <<"c","a","n","s">>
  >>

\* word `u` of the alternation matches at the start of s (flag i)
UnitWordMatches(u, s) ==
  /\ Len(u) <= Len(s)
  /\ \A i \in 1..Len(u) :
       IF u[i] = "." THEN s[i] \notin {"\n", "\r"} ELSE ToLower(s[i]) = u[i]

\* (?=\b) after the first k characters of s
BoundaryAfter(s, k) ==
  LET before == k >= 1 /\ IsWordChar(s[k])
      after  == k < Len(s) /\ IsWordChar(s[k + 1])
  IN  before # after

RECURSIVE FirstUnit(_, _, _)
\* length of the first word, in order, that matches and is followed by \b; 0 if none
FirstUnit(words, k, s) ==
  IF k > Len(words) THEN 0
  ELSE IF UnitWordMatches(words[k], s) /\ BoundaryAfter(s, Len(words[k]))
       THEN Len(words[k])
       ELSE FirstUnit(words, k + 1, s)

unitMatch(s) == FirstUnit(UNIT_REGEX, 1, s)

\* s.replace(/^of\s+/i, '').trim()
StripOf(s) ==
  LET w == SpaceRun(s, 3)
  IN  IF Len(s) >= 3 /\ ToLower(s[1]) = "o" /\ ToLower(s[2]) = "f" /\ w > 0
      THEN Trim(Drop(s, 2 + w)) ELSE Trim(s)

parseIngredientHeuristic(str) ==
  LET s0 == StripBullets(Trim(str))
      a  == amountMatch(s0)
      amount == Trim(Take(s0, a))
      s1 == Trim(Drop(s0, a))
      u  == unitMatch(s1)
      unit == Trim(Take(s1, u))
      s2 == Trim(Drop(s1, u))
  IN  [name |-> StripOf(s2), amount |-> amount, unit |-> unit]

RECURSIVE buildStructuredIngredients(_)
\* ingredients.map(parseIngredientHeuristic)
buildStructuredIngredients(ingredients) ==
  IF ingredients = <<>> THEN <<>>
  ELSE <<parseIngredientHeuristic(Head(ingredients))>>
       \o buildStructuredIngredients(Tail(ingredients))

-----------------------------------------------------------------------------
(* Values of the handler: JavaScript null/undefined and optional fields *)

\* null / undefined
Null == [kind |-> "null"]
\* a field that is not there
Absent == [kind |-> "absent"]
Str(s) == [kind |-> "string", s |-> s]
Arr(items) == [kind |-> "array", items |-> items]

RECURSIVE MapTrimNonEmpty(_)
\* .map((x) => x.trim()).filter((x) => x.length > 0)
MapTrimNonEmpty(xs) ==
  IF xs = <<>> THEN <<>>
  ELSE LET x == Trim(Head(xs))
       IN  (IF Len(x) > 0 THEN <<x>> ELSE <<>>) \o MapTrimNonEmpty(Tail(xs))

-----------------------------------------------------------------------------
(* extractFromJsonLd: the structured-data extractor *)

RECURSIVE SplitLines(_, _)
\* raw.split(/\r?\n/): `cur` is the piece being read
SplitLines(s, cur) ==
  IF s = <<>> THEN <<cur>>
  ELSE IF Head(s) = "\n" THEN <<cur>> \o SplitLines(Tail(s), <<>>)
  ELSE IF Head(s) = "\r" /\ Len(s) >= 2 /\ s[2] = "\n" THEN <<cur>> \o SplitLines(Drop(s, 2), <<>>)
  ELSE SplitLines(Tail(s), Append(cur, Head(s)))

RECURSIVE MapStripBulletsNonEmpty(_)
\* .map((x) => x.replace(/^[-<bullet>\s]+/, '').trim()).filter((x) => x.length > 0)
MapStripBulletsNonEmpty(xs) ==
  IF xs = <<>> THEN <<>>
  ELSE LET x == StripBullets(Head(xs))
       IN  (IF Len(x) > 0 THEN <<x>> ELSE <<>>) \o MapStripBulletsNonEmpty(Tail(xs))

\* raw: Absent, Arr(strings) or Str(text)
normalizeIngredients(raw) ==
  CASE raw.kind = "array"  -> MapTrimNonEmpty(raw.items)
    [] raw.kind = "string" -> IF raw.s = <<>> THEN <<>>
                              ELSE MapStripBulletsNonEmpty(SplitLines(raw.s, <<>>))
    [] OTHER               -> <<>>

\* x.replace(/^Step\s*\d+[:.)-]?\s*/i, '').trim()
StripStep(s) ==
  LET w  == SpaceRun(s, 5)
      d  == DigitRun(s, 5 + w)
      p  == 4 + w + d
      o  == IF p < Len(s) /\ s[p + 1] \in {":", ".", ")", "-"} THEN 1 ELSE 0
      w2 == SpaceRun(s, p + o + 1)
  IN  IF /\ Len(s) >= 5
         /\ <<ToLower(s[1]), ToLower(s[2]), ToLower(s[3]), ToLower(s[4])>> = <<"s","t","e","p">>
         /\ d > 0
      THEN Trim(Drop(s, p + o + w2))
      ELSE Trim(s)

RECURSIVE MapStripStepNonEmpty(_)
\* .map((x) => x.replace(/^Step.../i, '').trim()).filter((x) => x.length > 0)
\* over the steps already turned into trimmed strings
MapStripStepNonEmpty(xs) ==
  IF xs = <<>> THEN <<>>
  ELSE LET x == StripStep(Trim(Head(xs)))
       IN  (IF Len(x) > 0 THEN <<x>> ELSE <<>>) \o MapStripStepNonEmpty(Tail(xs))

\* an array whose members are given with their JSON type: Str(text), or a step
\* object [kind |-> "object", text, name, itemListElement], or Null
Steps(items) == [kind |-> "steps", items |-> items]
StepObject(text, name, list) ==
  [kind |-> "object", text |-> text, name |-> name, itemListElement |-> list]

\* typeof el === 'string' ? el : el?.text || el?.name || '', then trimmed
ElementText(el) ==
  IF el.kind = "string" THEN Trim(el.s)
  ELSE IF el.kind # "object" THEN <<>>
  ELSE IF el.text.kind = "string" /\ el.text.s # <<>> THEN Trim(el.text.s)
  ELSE IF el.name.kind = "string" THEN Trim(el.name.s)
  ELSE <<>>

RECURSIVE JoinNonEmpty(_)
\* .filter((s) => s.length > 0).join(' ') over the texts of the elements
JoinNonEmpty(els) ==
  IF els = <<>> THEN <<>>
  ELSE LET t    == ElementText(Head(els))
           rest == JoinNonEmpty(Tail(els))
       IN  IF t = <<>> THEN rest
           ELSE IF rest = <<>> THEN t
           ELSE t \o <<" ">> \o rest

\* the first .map of the array branch: the text of one step
StepText(step) ==
  IF step.kind = "string" THEN Trim(step.s)
  ELSE IF step.kind # "object" THEN <<>>
  ELSE IF step.text.kind = "string" THEN Trim(step.text.s)
  ELSE IF step.name.kind = "string" THEN Trim(step.name.s)
  ELSE IF step.itemListElement.kind = "steps" THEN JoinNonEmpty(step.itemListElement.items)
  ELSE <<>>

RECURSIVE MapStepText(_)
MapStepText(steps) ==
  IF steps = <<>> THEN <<>>
  ELSE <<StepText(Head(steps))>> \o MapStepText(Tail(steps))

RECURSIVE NewlineRun(_, _)
\* length matched by \n+ from position i
NewlineRun(s, i) ==
  IF i <= Len(s) /\ s[i] = "\n" THEN 1 + NewlineRun(s, i + 1) ELSE 0

\* the lookahead (?=\s+[A-Z]|$) at position i
SentenceEnd(s, i) ==
  \/ i > Len(s)
  \/ /\ SpaceRun(s, i) > 0
     /\ i + SpaceRun(s, i) <= Len(s)
     /\ IsUpper(s[i + SpaceRun(s, i)])

RECURSIVE SplitSentences(_, _)
\* raw.split(/\r?\n+|\.(?=\s+[A-Z]|$)/): `cur` is the piece being read
SplitSentences(s, cur) ==
  IF s = <<>> THEN <<cur>>
  ELSE IF Head(s) = "\r" /\ NewlineRun(s, 2) > 0
  THEN <<cur>> \o SplitSentences(Drop(s, 1 + NewlineRun(s, 2)), <<>>)
  ELSE IF Head(s) = "\n"
  THEN <<cur>> \o SplitSentences(Drop(s, NewlineRun(s, 1)), <<>>)
  ELSE IF Head(s) = "." /\ SentenceEnd(s, 2)
  THEN <<cur>> \o SplitSentences(Tail(s), <<>>)
  ELSE SplitSentences(Tail(s), Append(cur, Head(s)))

\* raw: Absent, Arr(strings), Steps(members of any type) or Str(text)
normalizeInstructions(raw) ==
  CASE raw.kind = "array"  -> MapStripStepNonEmpty(raw.items)
    [] raw.kind = "steps"  -> MapStripStepNonEmpty(MapStepText(raw.items))
    [] raw.kind = "string" -> IF raw.s = <<>> THEN <<>>
                              ELSE MapTrimNonEmpty(SplitSentences(raw.s, <<>>))
    [] OTHER               -> <<>>

\* node['@type'] is 'Recipe', or an array that includes 'Recipe'
IsRecipeType(typeField) ==
  \/ typeField.kind = "array" /\ \E i \in 1..Len(typeField.items) : typeField.items[i] = "Recipe"
  \/ typeField.kind = "string" /\ typeField.s = "Recipe"

\* truthiness of a field: an array (even empty) and a non-empty string are truthy
Truthy(v) == v.kind \in {"array", "steps"} \/ (v.kind = "string" /\ v.s # <<>>)

\* the node qualifies and yields something
NodeResult(node) ==
  IF node.kind # "object" THEN Null
  ELSE IF ~IsRecipeType(node.type) /\ ~(Truthy(node.recipeIngredient) \/ Truthy(node.recipeInstructions))
  THEN Null
  ELSE LET ingredients  == normalizeIngredients(node.recipeIngredient)
           instructions == normalizeInstructions(node.recipeInstructions)
       IN  IF Len(ingredients) > 0 \/ Len(instructions) > 0
           THEN [kind |-> "jsonld", ingredients |-> ingredients, instructions |-> instructions]
           ELSE Null

\* the candidates of one parsed block: the members of an array; the members of
\* @graph followed by the object itself
Candidates(block) ==
  CASE block.kind = "array"  -> block.items
    [] block.kind = "object" -> (IF block.graph.kind = "array" THEN block.graph.items ELSE <<>>)
                                  \o <<block.node>>
    [] OTHER                 -> <<>>

\* the last node that qualifies and yields something is taken
FirstNode_LastWins(nodes) ==
  LET hits == { k \in 1..Len(nodes) : NodeResult(nodes[k]) # Null }
  IN  IF hits = {} THEN Null
      ELSE NodeResult(nodes[CHOOSE k \in hits : \A j \in hits : j <= k])

RECURSIVE FirstNode(_)
\* for (const node of candidates): the first node that qualifies and yields
\* something is returned
FirstNode(nodes) ==
  IF nodes = <<>> THEN Null
  ELSE IF NodeResult(Head(nodes)) # Null THEN NodeResult(Head(nodes))
  ELSE FirstNode(Tail(nodes))

RECURSIVE FirstBlock_MalformedFatal(_)
\* a block that does not parse ends the scan of the page
FirstBlock_MalformedFatal(blocks) ==
  IF blocks = <<>> THEN Null
  ELSE IF Head(blocks).kind = "invalid" THEN Null
  ELSE IF FirstNode(Candidates(Head(blocks))) # Null THEN FirstNode(Candidates(Head(blocks)))
  ELSE FirstBlock_MalformedFatal(Tail(blocks))

RECURSIVE FirstBlock(_)
\* blocks that do not parse are skipped (kind "invalid" has no candidates)
FirstBlock(blocks) ==
  IF blocks = <<>> THEN Null
  ELSE IF FirstNode(Candidates(Head(blocks))) # Null THEN FirstNode(Candidates(Head(blocks)))
  ELSE FirstBlock(Tail(blocks))

\* html.blocks: the non-empty contents of the application/ld+json scripts, in order
extractFromJsonLd(html) == FirstBlock(html.blocks)

-----------------------------------------------------------------------------
(* What a request meets: urls, pages and the answers of the outbound calls *)

\* the url of the request body: missing, a page, a video url with or without a video id
Urls ==
  { [kind |-> "missing"],
    [kind |-> "page"],
    [kind |-> "youtube", videoId |-> TRUE],
    [kind |-> "youtube", videoId |-> FALSE] }

isYouTubeUrl(u) == u.kind = "youtube"
\* the id the patterns capture, Null when none does
extractVideoId(u) == IF u.kind = "youtube" /\ u.videoId THEN [kind |-> "id"] ELSE Null

\* flat ingredient strings: "2 cups flour", "1 tsp. salt"
S1 == <<"2"," ","c","u","p","s"," ","f","l","o","u","r">>
S2 == <<"1"," ","t","s","p","."," ","s","a","l","t">>
FlatStrings == { S1, S2 }

\* all lists of flat ingredient strings up to the bound
IngredientLists == UNION { [1..n -> FlatStrings] : n \in 0..MaxIngredients }

\* recipeInstructions arrays of a page
PageInstructionLists ==
  { <<>>,
    << <<"M","i","x",".">> >>,
    << <<"S","t","e","p"," ","1",":"," ","M","i","x",".">>,
       <<"B","a","k","e",".">> >> }

RecipeNode(ings, instrs) ==
  [kind |-> "object", type |-> [kind |-> "string", s |-> "Recipe"],
   recipeIngredient |-> Arr(ings), recipeInstructions |-> Arr(instrs)]
\* a node of another type, without recipe fields
ArticleNode ==
  [kind |-> "object", type |-> [kind |-> "string", s |-> "Article"],
   recipeIngredient |-> Absent, recipeInstructions |-> Absent]
\* free-form structured data: no @type, but recipe fields
UntypedNode(ings, instrs) ==
  [kind |-> "object", type |-> Absent,
   recipeIngredient |-> Arr(ings), recipeInstructions |-> Arr(instrs)]
\* @type given as an array
MultiTypeNode(ings) ==
  [kind |-> "object", type |-> Arr(<<"Thing", "Recipe">>),
   recipeIngredient |-> Str(ings), recipeInstructions |-> Absent]

InvalidBlock == [kind |-> "invalid"]
ObjectBlock(node) == [kind |-> "object", graph |-> Absent, node |-> node]
GraphBlock(nodes, node) == [kind |-> "object", graph |-> Arr(nodes), node |-> node]
ArrayBlock(nodes) == [kind |-> "array", items |-> nodes]

Page(blocks) == [kind |-> "html", blocks |-> blocks]

Mix == <<"M","i","x",".">>

Pages ==
  { Page(<<>>), Page(<<InvalidBlock>>), Page(<<ObjectBlock(ArticleNode)>>) }
  \cup { Page(<<ObjectBlock(RecipeNode(l, i))>>) : l \in IngredientLists, i \in PageInstructionLists }
  \cup { Page(<<InvalidBlock, ObjectBlock(RecipeNode(<<S1>>, <<Mix>>))>>),
         Page(<<GraphBlock(<<ArticleNode, RecipeNode(<<S2>>, <<>>)>>, ArticleNode)>>),
         Page(<<ArrayBlock(<<[kind |-> "string"], UntypedNode(<<S1, S2>>, <<Mix>>)>>)>>),
         Page(<<ObjectBlock(RecipeNode(<<<<" ">> \o S1 \o <<" ">>, <<" ">>>>, <<>>))>>),
         Page(<<ObjectBlock(MultiTypeNode(<<"-", " ">> \o S1 \o <<"\n">> \o S2))>>),
         Page(<<ObjectBlock(RecipeNode(<<S1>>, <<>>)), ObjectBlock(RecipeNode(<<S2>>, <<Mix>>))>>),
         \* a member of @graph and the wrapper object both qualify
         Page(<<GraphBlock(<<ArticleNode, RecipeNode(<<S1>>, <<>>)>>, RecipeNode(<<S2>>, <<Mix>>))>>),
         \* an ingredient line that is a quantity and nothing else
         Page(<<ObjectBlock(RecipeNode(<< <<"2">> >>, <<Mix>>))>>) }

\* answers of the page fetch
PageReplies ==
  { [kind |-> "throw"], [kind |-> "http", ok |-> FALSE] }
  \cup { [kind |-> "http", ok |-> TRUE, html |-> h] : h \in Pages }

\* answers of the oEmbed lookup; the description is told by its length
OEmbedReplies ==
  { [kind |-> "throw"], [kind |-> "http", ok |-> FALSE] }
  \cup { [kind |-> "http", ok |-> TRUE, descriptionLength |-> n] : n \in {0, 49, 50} }

\* answers of the lookup of the video page: what the page carries
AlternativeReplies ==
  { [kind |-> "throw"], [kind |-> "http", ok |-> FALSE] }
  \cup { [kind |-> "http", ok |-> TRUE, meta |-> m, jsonLd |-> j] :
           m \in BOOLEAN, j \in {"none", "invalid", "nodescription", "description"} }

\* a text on hand; '' is NoText
NoText == [kind |-> "notext"]
Text(from) == [kind |-> "text", from |-> from]

\* the content of a chat completion: a JSON text (valid or not) that may be
\* wrapped in a code fence ("```json" or a plain "```")
Content(fence, valid, value) == [empty |-> FALSE, fence |-> fence, valid |-> valid, value |-> value]
EmptyContent == [empty |-> TRUE, fence |-> "none", valid |-> FALSE, value |-> Null]
Garbage == Content("none", FALSE, Null)

\* a JSON object of the extraction model; error "" stands for no error field
RecipeObject(err, ings, instrs) ==
  [kind |-> "object", error |-> err, ingredients |-> ings, instructions |-> instrs]
Sentinel == RecipeObject("No recipe found", Absent, Absent)

AiInstructionLists == { <<>>, << <<"M","i","x",".">>, <<"B","a","k","e",".">> >> }

RecipeValues ==
  { Sentinel, RecipeObject("", Absent, Absent),
    \* the instructions given as one string instead of an array
    RecipeObject("", Arr(<<S1>>), Str(Mix)) }
  \cup { RecipeObject("", Arr(l), Arr(i)) : l \in IngredientLists, i \in AiInstructionLists }

ModelContents ==
  { Garbage }
  \cup { Content(f, TRUE, v) : f \in {"none", "json"}, v \in RecipeValues }
  \cup { Content("plain", TRUE, Sentinel), Content("plain", TRUE, RecipeObject("", Arr(<<S1>>), Arr(<<Mix>>))) }

\* answers of a chat-completion call of the cascade
ModelReplies ==
  { [kind |-> "throw"] }
  \cup { [kind |-> "http", ok |-> FALSE, status |-> s] : s \in {429, 500} }
  \cup { [kind |-> "http", ok |-> TRUE, status |-> 200, choices |-> FALSE, content |-> EmptyContent] }
  \cup { [kind |-> "http", ok |-> TRUE, status |-> 200, choices |-> TRUE, content |-> c] :
           c \in ModelContents }

\* entries of the array the structuring model answers with
AiItems ==
  { [name |-> Str(<<"f","l","o","u","r">>), amount |-> Str(<<" ","2"," ">>), unit |-> Str(<<"c","u","p","s">>)],
    [name |-> Str(<<"s","a","l","t">>), amount |-> Absent, unit |-> Absent] }

AiArrays == UNION { [1..n -> AiItems] : n \in 0..MaxIngredients }

RefineContents ==
  { EmptyContent, Garbage, Content("none", TRUE, [kind |-> "object"]) }
  \cup { Content("none", TRUE, Arr(a)) : a \in AiArrays }
  \cup { Content(f, TRUE, Arr(a)) : f \in {"json", "plain"}, a \in { x \in AiArrays : Len(x) = 1 } }

\* answers of the structuring call
RefineReplies ==
  { [kind |-> "throw"], [kind |-> "http", ok |-> FALSE, status |-> 500] }
  \cup { [kind |-> "http", ok |-> TRUE, status |-> 200, choices |-> FALSE, content |-> EmptyContent] }
  \cup { [kind |-> "http", ok |-> TRUE, status |-> 200, choices |-> TRUE, content |-> c] :
           c \in RefineContents }

NoCall == [kind |-> "nocall"]

-----------------------------------------------------------------------------
(* Pure steps of the handler *)

\* .replace(/```json\n?/g, '').replace(/```\n?/g, ''): both kinds of fence go
StripFences(c) == [c EXCEPT !.fence = "none"]

\* .replace(/^```json\n?/i, '').replace(/```\s*$/i, ''): a leading "```json" and a
\* trailing "```" go, a leading plain "```" stays
StripJsonFence(c) == IF c.fence = "json" THEN [c EXCEPT !.fence = "none"] ELSE c

ParseError == [kind |-> "parseerror"]
\* JSON.parse: a text with a fence left, or that is no JSON, does not parse
JSONparse(c) == IF c.fence # "none" \/ ~c.valid THEN ParseError ELSE c.value

\* if (!aiResponse || !aiResponse.ok): the first model failed
NeedsFallback_UndefinedOnly(resp) == resp = Null
\* the second model is called whatever the first answered
NeedsFallback_Always(resp) == TRUE

NeedsFallback(resp) == IF resp = Null THEN TRUE ELSE ~resp.ok

\* if (jsonLdResult)
UseStructuredData_Never(res) == FALSE

UseStructuredData(res) == res # Null

\* if (recipeData.error)
IsSentinel_Never(data) == FALSE

IsSentinel(data) == data.error # ""

\* x || []: the array's items, a non-empty string itself (its characters), and
\* [] for a missing field
OrEmpty(v) ==
  IF v.kind = "array" THEN v.items
  ELSE IF v.kind = "string" THEN v.s
  ELSE <<>>

\* the JSON type of x || []
JsonType(v) == IF v.kind = "string" /\ v.s # <<>> THEN "string" ELSE "array"

\* the JSON types of the fields ingredients and instructions of a success
\* response: arrays from structured data, and what the model gave otherwise
FieldTypes(ld, data) ==
  IF ld # Null THEN [ingredients |-> "array", instructions |-> "array"]
  ELSE [ingredients |-> JsonType(data.ingredients), instructions |-> JsonType(data.instructions)]

\* typeof x?.f === 'string' ? x.f.trim() : ''
StringField(f) == IF f.kind = "string" THEN Trim(f.s) ELSE <<>>

RECURSIVE MapItems(_)
\* parsed.map((x) => ({ name, amount, unit }))
MapItems(xs) ==
  IF xs = <<>> THEN <<>>
  ELSE << [name   |-> StringField(Head(xs).name),
           amount |-> StringField(Head(xs).amount),
           unit   |-> StringField(Head(xs).unit)] >> \o MapItems(Tail(xs))

\* the structuring call is issued: there is a key and something to structure
RefineCalls(ingredients, key) == key /\ ingredients # <<>>

\* refineIngredientsWithAI: Null, or the array of structured ingredients.
\* `reply` is the answer of the call, NoCall when none is issued.
refineIngredientsWithAI(ingredients, key, reply) ==
  IF ~key THEN Null
  ELSE IF ingredients = <<>> THEN Arr(<<>>)
  ELSE IF reply.kind = "throw" THEN Null
  ELSE IF ~reply.ok THEN Null
  ELSE IF ~reply.choices \/ reply.content.empty THEN Null
  ELSE LET parsedJson == JSONparse(StripJsonFence(reply.content))
       IN  IF parsedJson = ParseError THEN Null
           ELSE IF parsedJson.kind # "array" THEN Null
           ELSE Arr(MapItems(parsedJson.items))

\* aiStructured && aiStructured.length > 0 ? aiStructured : buildStructuredIngredients(flat)
StructuredOrFallback_AnyArray(aiStructured, flat) ==
  IF aiStructured # Null THEN aiStructured.items ELSE buildStructuredIngredients(flat)

StructuredOrFallback(aiStructured, flat) ==
  IF aiStructured # Null /\ Len(aiStructured.items) > 0
  THEN aiStructured.items
  ELSE buildStructuredIngredients(flat)

\* !response.ok, or a description shorter than 50 characters
TriesAlternative(reply) == IF ~reply.ok THEN TRUE ELSE reply.descriptionLength < 50

\* extractDescriptionAlternative: a failed lookup is taken for a description
extractDescriptionAlternative_FailureAsText(reply) ==
  IF reply.kind = "throw" THEN Text("meta")
  ELSE IF ~reply.ok THEN Text("meta")
  ELSE IF reply.meta THEN Text("meta")
  ELSE IF reply.jsonLd = "description" THEN Text("jsonld")
  ELSE NoText

\* extractDescriptionAlternative: the meta description, else the description of
\* the page's JSON-LD, else null; null when the lookup fails or throws
extractDescriptionAlternative(reply) ==
  IF reply.kind = "throw" THEN NoText
  ELSE IF ~reply.ok THEN NoText
  ELSE IF reply.meta THEN Text("meta")
  ELSE IF reply.jsonLd = "description" THEN Text("jsonld")
  ELSE NoText

\* the page's text is chosen whatever the video lookups gave
ChooseText_AlwaysPage(content) == Text("page")

\* contentToExtract || cleanHtmlContent(htmlContent)
ChooseText(content) == IF content # NoText THEN content ELSE Text("page")

NoResponse == [kind |-> "none"]
\* the catch of the handler, and the no-recipe answer
ErrorResponse(status, message) ==
  [kind |-> "response", status |-> status, success |-> FALSE, error |-> message]
SuccessResponse(ingredients, instructions, structured, types) ==
  [kind |-> "response", status |-> 200, success |-> TRUE,
   ingredients |-> ingredients, instructions |-> instructions,
   structuredIngredients |-> structured, types |-> types]

-----------------------------------------------------------------------------
(* The serve handler, one action per stretch between two awaits *)

\* the outbound calls of a request, and those made to a model
\* the normalizer and the form are not in use
CleanOff ==
  /\ rawHtml = <<>>
  /\ cleaned = [kind |-> "none"]

NoToast == [kind |-> "none"]
NoAttempt == [kind |-> "none"]

FormOff ==
  /\ formData = [kind |-> "none"]
  /\ isExtracting = FALSE
  /\ toast = NoToast
  /\ formPc = "off"
  /\ attempt = NoAttempt
  /\ inFlight = 0

TwoOff ==
  /\ reqs = <<>>
  /\ logs = <<>>

NotExtracted == [kind |-> "none"]

LdOff ==
  /\ ldBlocks = <<>>
  /\ ldResult = NotExtracted

TextOff ==
  /\ textContent = <<>>
  /\ textPc = "off"
  /\ textLines = <<>>
  /\ lineIndex = 0
  /\ inInstructionsSection = FALSE
  /\ inIngredientsSection = FALSE
  /\ foundInstructions = <<>>
  /\ foundIngredients = <<>>
  /\ flagTrace = <<>>
  /\ parseResult = [kind |-> "none"]

\* the operations modelled on their own further down are not in use
SheetOff ==
  /\ sheetRows = <<>>
  /\ runs = <<>>
  /\ recipes = <<>>
  /\ importedUrls = <<>>

SaveOff ==
  /\ savePc = "off"
  /\ saveArg = <<>>
  /\ recipeTitles = <<>>
  /\ ingredientRows = <<>>
  /\ rowsBefore = <<>>
  /\ listed = "off"

ExtraOff == LdOff /\ TextOff /\ SheetOff /\ SaveOff

Targets == {"oembed", "alt", "page", "nano", "gpt4o", "refine"}
ModelTargets == {"nano", "gpt4o", "refine"}
\* the calls whose answer is kept in history: the models and the video lookups
LoggedTargets == ModelTargets \cup {"oembed", "alt"}

Init ==
  /\ pc = "start"
  /\ url \in Urls
  /\ keyConfigured \in BOOLEAN
  /\ contentToExtract = NoText
  /\ htmlContent = Null
  /\ jsonLdResult = Null
  /\ textToAnalyze = NoText
  /\ aiResponse = Null
  /\ recipeData = Null
  /\ flatIngredients = <<>>
  /\ flatInstructions = <<>>
  /\ response = NoResponse
  /\ calls = [t \in Targets |-> 0]
  /\ history = [t \in LoggedTargets |-> NoCall]
  /\ line = <<>>
  /\ parts = [kind |-> "none"]
  /\ parsed = [kind |-> "none"]
  /\ CleanOff
  /\ FormOff
  /\ TwoOff
  /\ ExtraOff

\* what history keeps of an answer: of a model the answer itself, of a video
\* lookup whether it threw, its status, and whether it carried a description
\* (for oEmbed: one of 50 characters or more)
Logged(target, reply) ==
  IF target \in ModelTargets \/ reply.kind = "throw" THEN reply
  ELSE IF ~reply.ok THEN [kind |-> "http", ok |-> FALSE]
  ELSE [kind |-> "http", ok |-> TRUE,
        description |-> IF target = "oembed" THEN reply.descriptionLength >= 50
                        ELSE IF reply.meta THEN TRUE ELSE reply.jsonLd = "description"]

\* an exception reaches the catch of the handler: status 500
Throw(message) ==
  /\ response' = ErrorResponse(500, message)
  /\ pc' = "done"

Called(target, reply) ==
  /\ calls' = [calls EXCEPT ![target] = @ + 1]
  /\ history' = IF target \in LoggedTargets
                 THEN [history EXCEPT ![target] = Logged(target, reply)] ELSE history

\* a call to a model is issued, and later answered
Issued(target) ==
  /\ calls' = [calls EXCEPT ![target] = @ + 1]
  /\ UNCHANGED history

Answered(target, reply) ==
  /\ history' = [history EXCEPT ![target] = Logged(target, reply)]
  /\ UNCHANGED calls

\* the url check and the video branch, up to the first call
Start ==
  /\ pc = "start"
  /\ IF url.kind = "missing"
     THEN Throw("URL is required")
     ELSE /\ pc' = IF isYouTubeUrl(url) /\ extractVideoId(url) # Null THEN "oembed" ELSE "fetch"
          /\ UNCHANGED response
  /\ UNCHANGED <<url, keyConfigured, contentToExtract, htmlContent, jsonLdResult,
                 textToAnalyze, aiResponse, recipeData, flatIngredients,
                 flatInstructions, calls, history, offVars>>

\* extractYouTubeDescription: the oEmbed lookup
OEmbedLookup ==
  /\ pc = "oembed"
  /\ \E reply \in OEmbedReplies :
       /\ Called("oembed", reply)
       /\ IF reply.kind = "throw"
          THEN pc' = "fetch" /\ UNCHANGED contentToExtract
          ELSE IF TriesAlternative(reply)
          THEN pc' = "alt" /\ UNCHANGED contentToExtract
          ELSE pc' = "fetch" /\ contentToExtract' = Text("oembed")
  /\ UNCHANGED <<url, keyConfigured, htmlContent, jsonLdResult, textToAnalyze, aiResponse,
                 recipeData, flatIngredients, flatInstructions, response, offVars>>

\* extractDescriptionAlternative: the meta description, else the description of
\* the page's JSON-LD, else nothing
AlternativeLookup ==
  /\ pc = "alt"
  /\ \E reply \in AlternativeReplies :
       /\ Called("alt", reply)
       /\ contentToExtract' = extractDescriptionAlternative(reply)
  /\ pc' = "fetch"
  /\ UNCHANGED <<url, keyConfigured, htmlContent, jsonLdResult, textToAnalyze, aiResponse,
                 recipeData, flatIngredients, flatInstructions, response, offVars>>

\* fetch(url)
FetchPage ==
  /\ pc = "fetch"
  /\ \E reply \in PageReplies :
       /\ Called("page", reply)
       /\ IF reply.kind = "throw"
          THEN Throw("fetch failed") /\ UNCHANGED htmlContent
          ELSE IF ~reply.ok
          THEN Throw("Failed to fetch website") /\ UNCHANGED htmlContent
          ELSE /\ htmlContent' = reply.html
               /\ pc' = "jsonld"
               /\ UNCHANGED response
  /\ UNCHANGED <<url, keyConfigured, contentToExtract, jsonLdResult, textToAnalyze,
                 aiResponse, recipeData, flatIngredients, flatInstructions, offVars>>

\* the structured data is tried first; without it the text for the model is chosen
StructuredDataCheck ==
  /\ pc = "jsonld"
  /\ LET res == extractFromJsonLd(htmlContent) IN
       /\ jsonLdResult' = res
       /\ IF UseStructuredData(res)
          THEN /\ flatIngredients' = res.ingredients
               /\ flatInstructions' = res.instructions
               /\ pc' = "refine_ld"
               /\ UNCHANGED textToAnalyze
          ELSE /\ textToAnalyze' = ChooseText(contentToExtract)
               /\ pc' = "key"
               /\ UNCHANGED <<flatIngredients, flatInstructions>>
  /\ UNCHANGED <<url, keyConfigured, contentToExtract, htmlContent, aiResponse,
                 recipeData, response, calls, history, offVars>>

\* the API key check
KeyCheck ==
  /\ pc = "key"
  /\ IF ~keyConfigured
     THEN Throw("OpenAI API key not configured")
     ELSE pc' = "nano" /\ UNCHANGED response
  /\ UNCHANGED <<url, keyConfigured, contentToExtract, htmlContent, jsonLdResult,
                 textToAnalyze, aiResponse, recipeData, flatIngredients,
                 flatInstructions, calls, history, offVars>>

\* the first model of the cascade is called: the fetch is issued and awaited
CallNano ==
  /\ pc = "nano"
  /\ Issued("nano")
  /\ pc' = "nano_wait"
  /\ UNCHANGED <<url, keyConfigured, contentToExtract, htmlContent, jsonLdResult,
                 textToAnalyze, aiResponse, recipeData, flatIngredients, flatInstructions,
                 response, offVars>>

\* the first call is over; when it threw, the same call is made once more
NanoReturns_Retry ==
  /\ pc = "nano_wait"
  /\ \E reply \in ModelReplies :
       /\ Answered("nano", reply)
       /\ aiResponse' = IF reply.kind = "throw" THEN Null ELSE reply
       /\ pc' = IF reply.kind = "throw" /\ calls.nano < 2 THEN "nano" ELSE "gpt4o"
  /\ UNCHANGED <<url, keyConfigured, contentToExtract, htmlContent, jsonLdResult,
                 textToAnalyze, recipeData, flatIngredients, flatInstructions,
                 response, offVars>>

\* the first call is over; an exception of the call is caught and logged
NanoReturns ==
  /\ pc = "nano_wait"
  /\ \E reply \in ModelReplies :
       /\ Answered("nano", reply)
       /\ aiResponse' = IF reply.kind = "throw" THEN Null ELSE reply
  /\ pc' = "gpt4o"
  /\ UNCHANGED <<url, keyConfigured, contentToExtract, htmlContent, jsonLdResult,
                 textToAnalyze, recipeData, flatIngredients, flatInstructions,
                 response, offVars>>

\* the second model of the cascade is called when the first failed
CallGpt4o ==
  /\ pc = "gpt4o"
  /\ NeedsFallback(aiResponse)
  /\ Issued("gpt4o")
  /\ pc' = "gpt4o_wait"
  /\ UNCHANGED <<url, keyConfigured, contentToExtract, htmlContent, jsonLdResult,
                 textToAnalyze, aiResponse, recipeData, flatIngredients, flatInstructions,
                 response, offVars>>

\* the second call is over; an exception of this call reaches the catch of the
\* handler
Gpt4oReturns ==
  /\ pc = "gpt4o_wait"
  /\ \E reply \in ModelReplies :
       /\ Answered("gpt4o", reply)
       /\ IF reply.kind = "throw"
          THEN Throw("fetch failed") /\ UNCHANGED aiResponse
          ELSE /\ aiResponse' = reply
               /\ pc' = "read"
               /\ UNCHANGED response
  /\ UNCHANGED <<url, keyConfigured, contentToExtract, htmlContent, jsonLdResult,
                 textToAnalyze, recipeData, flatIngredients, flatInstructions, offVars>>

\* the first model answered 2xx: the second is not called
SkipGpt4o ==
  /\ pc = "gpt4o"
  /\ ~NeedsFallback(aiResponse)
  /\ pc' = "read"
  /\ UNCHANGED <<url, keyConfigured, contentToExtract, htmlContent, jsonLdResult,
                 textToAnalyze, aiResponse, recipeData, flatIngredients,
                 flatInstructions, response, calls, history, offVars>>

\* the answer of the cascade is read and parsed
ReadAiResponse ==
  /\ pc = "read"
  /\ IF ~aiResponse.ok
     THEN /\ Throw(IF aiResponse.status = 429 THEN "AI API error: 429" ELSE "AI API error: 500")
          /\ UNCHANGED <<recipeData, flatIngredients, flatInstructions>>
     ELSE IF ~aiResponse.choices
     THEN /\ Throw("Cannot read properties of undefined")
          /\ UNCHANGED <<recipeData, flatIngredients, flatInstructions>>
     ELSE LET data == JSONparse(StripFences(aiResponse.content)) IN
          IF data = ParseError
          THEN /\ Throw("Failed to parse recipe data from AI response")
               /\ UNCHANGED <<recipeData, flatIngredients, flatInstructions>>
          ELSE /\ recipeData' = data
               /\ IF IsSentinel(data)
                  THEN /\ response' = ErrorResponse(400, data.error)
                       /\ pc' = "done"
                       /\ UNCHANGED <<flatIngredients, flatInstructions>>
                  ELSE /\ flatIngredients' = OrEmpty(data.ingredients)
                       /\ flatInstructions' = OrEmpty(data.instructions)
                       /\ pc' = "refine_ai"
                       /\ UNCHANGED response
  /\ UNCHANGED <<url, keyConfigured, contentToExtract, htmlContent, jsonLdResult,
                 textToAnalyze, aiResponse, calls, history, offVars>>

\* the structuring of the flat ingredients and the success response
Structure(key) ==
  /\ \E reply \in (IF RefineCalls(flatIngredients, key) THEN RefineReplies ELSE {NoCall}) :
       /\ IF reply = NoCall THEN UNCHANGED <<calls, history>> ELSE Called("refine", reply)
       /\ response' = SuccessResponse(flatIngredients, flatInstructions,
                        StructuredOrFallback(
                          refineIngredientsWithAI(flatIngredients, key, reply),
                          flatIngredients),
                        FieldTypes(jsonLdResult, recipeData))
  /\ pc' = "done"
  /\ UNCHANGED <<url, keyConfigured, contentToExtract, htmlContent, jsonLdResult,
                 textToAnalyze, aiResponse, recipeData, flatIngredients,
                 flatInstructions, offVars>>

\* the JSON-LD branch: the key is the environment's, or ''
StructureJsonLd ==
  /\ pc = "refine_ld"
  /\ Structure(keyConfigured)

\* the model branch: the key was checked before
StructureAi ==
  /\ pc = "refine_ai"
  /\ Structure(TRUE)

Next ==
  \/ Start
  \/ OEmbedLookup
  \/ AlternativeLookup
  \/ FetchPage
  \/ StructuredDataCheck
  \/ KeyCheck
  \/ CallNano
  \/ NanoReturns
  \/ CallGpt4o
  \/ Gpt4oReturns
  \/ SkipGpt4o
  \/ ReadAiResponse
  \/ StructureJsonLd
  \/ StructureAi

Spec == Init /\ [][Next]_vars

-----------------------------------------------------------------------------
(* The parser called on its own: lines put together from a quantity, a unit *)
(* and a name, as flat ingredient strings are written.                      *)

NotParsed == [kind |-> "none"]

Spaces(k) == [i \in 1..k |-> " "]

\* leading quantities, one or more of every shape amountPattern lists, and none
Quantities ==
    { [shape |-> "mixed", text |-> <<"1">> \o Spaces(k) \o <<"1","/","2">>] : k \in 1..MaxGap }
  \cup { [shape |-> "mixed", text |-> <<"1","2">> \o Spaces(k) \o <<"3","/","4">>] : k \in 1..MaxGap }
  \cup { [shape |-> "range",    text |-> <<"1","-","1","/","2">>],
         [shape |-> "fraction", text |-> <<"1","/","2">>],
         [shape |-> "decimal",  text |-> <<"1",".","5">>],
         [shape |-> "decimal",  text |-> <<"0",".","2","5">>],
         [shape |-> "integer",  text |-> <<"2">>],
         [shape |-> "integer",  text |-> <<"1","2">>],
         [shape |-> "glyph",    text |-> <<"U+00BD">>],
         [shape |-> "none",     text |-> <<>>] }

\* unit tokens as written: every word of the vocabulary, some in other case, and none
UnitTokens ==
  { UNIT_REGEX[i] : i \in 1..Len(UNIT_REGEX) }
  \cup { <<"C","u","p","s">>, <<"T","B","S","P">>, <<"G">>, <<>> }

\* what follows the unit, and the ingredient name it spells (a leading "of" is no
\* part of the name)
Rests ==
  { [text |-> <<"f","l","o","u","r">>, name |-> <<"f","l","o","u","r">>],
    [text |-> <<"o","f"," ","f","l","o","u","r">>, name |-> <<"f","l","o","u","r">>],
    [text |-> <<"a","l","l","-","p","u","r","p","o","s","e"," ","f","l","o","u","r">>,
     name |-> <<"a","l","l","-","p","u","r","p","o","s","e"," ","f","l","o","u","r">>] }

Prefixes == { <<>>, <<"-"," ">>, <<Bullet," ">> }

\* the line written from its parts: a unit is followed by one blank
Compose(p) ==
  p.prefix \o p.qty.text \o Spaces(p.gap) \o p.unit
    \o (IF p.unit = <<>> THEN <<>> ELSE <<" ">>) \o p.rest.text

Lines ==
  { [prefix |-> pre, qty |-> q, gap |-> g, unit |-> u, rest |-> r] :
      pre \in Prefixes, q \in Quantities, g \in 0..MaxGap, u \in UnitTokens, r \in Rests }

\* no request is running
ReqOff ==
  /\ pc = "off"
  /\ url = [kind |-> "missing"]
  /\ keyConfigured = FALSE
  /\ contentToExtract = NoText
  /\ htmlContent = Null
  /\ jsonLdResult = Null
  /\ textToAnalyze = NoText
  /\ aiResponse = Null
  /\ recipeData = Null
  /\ flatIngredients = <<>>
  /\ flatInstructions = <<>>
  /\ response = NoResponse
  /\ calls = [t \in Targets |-> 0]
  /\ history = [t \in LoggedTargets |-> NoCall]

InitParse ==
  /\ ReqOff
  /\ parts \in Lines
  /\ line = Compose(parts)
  /\ parsed = NotParsed
  /\ CleanOff
  /\ FormOff
  /\ TwoOff
  /\ ExtraOff

\* one call of parseIngredientHeuristic(line)
ParseLine ==
  /\ pc = "off"
  /\ parsed = NotParsed
  /\ parsed' = parseIngredientHeuristic(line)
  /\ UNCHANGED <<reqVars, line, parts, cleanVars, formVars, twoVars, extraVars>>

NextParse == ParseLine

SpecParse == InitParse /\ [][NextParse]_vars

-----------------------------------------------------------------------------
(* cleanHtmlContent: the page text sent to the extraction model *)

\* s has w at position i; with ci, letters of s are compared in lower case
StartsWith(s, i, w, ci) ==
  IF i + Len(w) - 1 > Len(s) THEN FALSE
  ELSE \A k \in 1..Len(w) : (IF ci THEN ToLower(s[i + k - 1]) ELSE s[i + k - 1]) = w[k]

RECURSIVE IndexOf(_, _, _, _)
\* the first position from i on where s has w, 0 when there is none
IndexOf(s, i, w, ci) ==
  IF i + Len(w) - 1 > Len(s) THEN 0
  ELSE IF StartsWith(s, i, w, ci) THEN i
  ELSE IndexOf(s, i + 1, w, ci)

RECURSIVE RunOf(_, _, _)
\* length of the run of characters of `chars` that begins at position i
RunOf(s, i, chars) ==
  IF i > Len(s) THEN 0
  ELSE IF s[i] \in chars THEN 1 + RunOf(s, i + 1, chars) ELSE 0

RECURSIVE RemoveElements(_, _, _, _)
\* replace(/<script[^>]*>[\s\S]*?<\/script>/gi, ''), likewise style: the opening
\* tag runs to the first ">", the element to the first closing tag after it
RemoveElements(s, i, open, close) ==
  IF i > Len(s) THEN <<>>
  ELSE LET g == IF StartsWith(s, i, open, TRUE)
                THEN IndexOf(s, i + Len(open), <<">">>, FALSE) ELSE 0
           e == IF g = 0 THEN 0 ELSE IndexOf(s, g + 1, close, TRUE)
       IN  IF e = 0 THEN <<s[i]>> \o RemoveElements(s, i + 1, open, close)
           ELSE RemoveElements(s, e + Len(close), open, close)

RECURSIVE RemoveComments(_, _)
\* replace(/<!--[\s\S]*?-->/g, '')
RemoveComments(s, i) ==
  IF i > Len(s) THEN <<>>
  ELSE LET e == IF StartsWith(s, i, <<"<","!","-","-">>, FALSE)
                THEN IndexOf(s, i + 4, <<"-","-",">">>, FALSE) ELSE 0
       IN  IF e = 0 THEN <<s[i]>> \o RemoveComments(s, i + 1)
           ELSE RemoveComments(s, e + 3)

RECURSIVE ReplaceTags(_, _, _, _, _)
\* replace(/<name[^>]*>/gi, rep) for the tag openings `names`: a tag runs to the
\* first ">" after it, with at least `least` characters between (the + of /<[^>]+>/)
ReplaceTags(s, i, names, least, rep) ==
  IF i > Len(s) THEN <<>>
  ELSE LET g == IndexOf(s, i + 1, <<">">>, FALSE)
           hit == IF g = 0 THEN FALSE
                  ELSE \E n \in names : StartsWith(s, i, n, TRUE) /\ g >= i + Len(n) + least
       IN  IF hit THEN rep \o ReplaceTags(s, g + 1, names, least, rep)
           ELSE <<s[i]>> \o ReplaceTags(s, i + 1, names, least, rep)

RECURSIVE ReplaceAll(_, _, _, _)
\* replace(/w/g, rep) for a literal w
ReplaceAll(s, i, w, rep) ==
  IF i > Len(s) THEN <<>>
  ELSE IF StartsWith(s, i, w, FALSE) THEN rep \o ReplaceAll(s, i + Len(w), w, rep)
  ELSE <<s[i]>> \o ReplaceAll(s, i + 1, w, rep)

\* [\t\f\v\r ] and \s
Blanks == {"\t", "\f", "U+000B", "\r", " "}
WhiteSpace == Blanks \cup {"\n", "U+00A0"}

RECURSIVE CollapseBlanks(_, _)
\* replace(/[\t\f\v\r ]+/g, ' ')
CollapseBlanks(s, i) ==
  IF i > Len(s) THEN <<>>
  ELSE IF s[i] \in Blanks THEN <<" ">> \o CollapseBlanks(s, i + RunOf(s, i, Blanks))
  ELSE <<s[i]>> \o CollapseBlanks(s, i + 1)

RECURSIVE CollapseNewlines(_, _)
\* replace(/\n{3,}/g, '\n\n')
CollapseNewlines(s, i) ==
  IF i > Len(s) THEN <<>>
  ELSE LET r == RunOf(s, i, {"\n"})
       IN  IF r >= 3 THEN <<"\n", "\n">> \o CollapseNewlines(s, i + r)
           ELSE <<s[i]>> \o CollapseNewlines(s, i + 1)

RECURSIVE TrimAroundNewlines(_, _)
\* replace(/\s*\n\s*/g, '\n'): a run of white space with a newline in it
TrimAroundNewlines(s, i) ==
  IF i > Len(s) THEN <<>>
  ELSE LET r == RunOf(s, i, WhiteSpace)
       IN  IF \E k \in i..(i + r - 1) : s[k] = "\n"
           THEN <<"\n">> \o TrimAroundNewlines(s, i + r)
           ELSE <<s[i]>> \o TrimAroundNewlines(s, i + 1)

\* the tag openings of line 277, with and without the slash
BlockTags ==
  LET names == { <<"h", d>> : d \in {"1","2","3","4","5","6"} }
                 \cup { <<"p">>, <<"d","i","v">>, <<"s","e","c","t","i","o","n">>,
                        <<"a","r","t","i","c","l","e">>, <<"m","a","i","n">>, <<"u","l">>,
                        <<"o","l">>, <<"t","d">>, <<"t","h">> }
  IN  { <<"<">> \o n : n \in names } \cup { <<"<","/">> \o n : n \in names }

\* the entities of lines 284-289, in the order they are decoded
Entities ==
  << [entity |-> <<"&","a","m","p",";">>, char |-> "&"],
     [entity |-> <<"&","l","t",";">>, char |-> "<"],
     [entity |-> <<"&","g","t",";">>, char |-> ">"],
     [entity |-> <<"&","q","u","o","t",";">>, char |-> "\""],
     [entity |-> <<"&","#","3","9",";">>, char |-> "'"],
     [entity |-> <<"&","n","b","s","p",";">>, char |-> " "] >>

RECURSIVE DecodeEntities(_, _)
DecodeEntities(s, k) ==
  IF k > Len(Entities) THEN s
  ELSE DecodeEntities(ReplaceAll(s, 1, Entities[k].entity, <<Entities[k].char>>), k + 1)

cleanHtmlContent(text) ==
  LET c1 == RemoveElements(text, 1, <<"<","s","c","r","i","p","t">>, <<"<","/","s","c","r","i","p","t",">">>)
      c2 == RemoveElements(c1, 1, <<"<","s","t","y","l","e">>, <<"<","/","s","t","y","l","e",">">>)
      c3 == RemoveComments(c2, 1)
      c4 == ReplaceTags(c3, 1, {<<"<","l","i">>}, 0, <<"\n","-"," ">>)
      c5 == ReplaceTags(c4, 1, {<<"<","/","l","i">>}, 0, <<"\n">>)
      c6 == ReplaceTags(c5, 1, BlockTags, 0, <<"\n">>)
      c7 == ReplaceTags(c6, 1, {<<"<","b","r">>}, 0, <<"\n">>)
      c8 == ReplaceTags(c7, 1, {<<"<">>}, 1, <<" ">>)
      c9 == DecodeEntities(c8, 1)
      c10 == CollapseBlanks(c9, 1)
      c11 == CollapseNewlines(c10, 1)
      c12 == TrimAroundNewlines(c11, 1)
  IN  Trim(c12)

\* pieces a page text is put together from
MaxPieces == 3

HtmlPieces ==
  { <<"a">>,
    <<"b">>,
    <<" ">>,
    <<"\n">>,
    <<"<","b",">">>,
    <<"<","l","i",">">>,
    <<"<","/","p",">">>,
    <<"<","b","r",">">>,
    <<"&","a","m","p",";">>,
    <<"&","l","t",";">>,
    <<"&","g","t",";">>,
    <<"l","t",";">>,
    <<"&","n","b","s","p",";">>,
    <<"&","q","u","o","t",";">>,
    <<"&","#","3","9",";">>,
    <<"<","s","c","r","i","p","t",">","x","<","/","s","c","r","i","p","t",">">>,
    <<"<","s","t","y","l","e",">","x","<","/","s","t","y","l","e",">">>,
    <<"<","!","-","-","x","-","-",">">> }

RECURSIVE Concat(_)
Concat(ps) == IF ps = <<>> THEN <<>> ELSE Head(ps) \o Concat(Tail(ps))

HtmlTexts == { Concat(ps) : ps \in UNION { [1..n -> HtmlPieces] : n \in 0..MaxPieces } }

NotCleaned == [kind |-> "none"]

ParseOff ==
  /\ line = <<>>
  /\ parts = [kind |-> "none"]
  /\ parsed = NotParsed

InitClean ==
  /\ ReqOff
  /\ ParseOff
  /\ FormOff
  /\ TwoOff
  /\ ExtraOff
  /\ rawHtml \in HtmlTexts
  /\ cleaned = NotCleaned

\* cleanHtmlContent(rawHtml)
Clean ==
  /\ pc = "off"
  /\ cleaned = NotCleaned
  /\ cleaned' = [kind |-> "cleaned", passes |-> 1, input |-> rawHtml,
                 text |-> cleanHtmlContent(rawHtml)]
  /\ UNCHANGED <<reqVars, parseVars, rawHtml, formVars, twoVars, extraVars>>

\* cleanHtmlContent called on its own output
CleanAgain ==
  /\ pc = "off"
  /\ cleaned # NotCleaned
  /\ cleaned.passes = 1
  /\ cleaned' = [kind |-> "cleaned", passes |-> 2, input |-> cleaned.text,
                 text |-> cleanHtmlContent(cleaned.text)]
  /\ UNCHANGED <<reqVars, parseVars, rawHtml, formVars, twoVars, extraVars>>

NextClean == Clean \/ CleanAgain

SpecClean == InitClean /\ [][NextClean]_vars

-----------------------------------------------------------------------------
(* RecipeForm: extraction started from the recipe form *)

Flour == [name |-> <<"f","l","o","u","r">>, amount |-> <<"2">>, unit |-> <<"c","u","p","s">>]

\* the fields the form was opened with
FormRecipes ==
  { [websiteUrl |-> u, ingredients |-> i, instructions |-> n] :
      u \in BOOLEAN,
      i \in { <<>>, <<Flour>>, <<[name |-> <<"s","a","l","t">>, amount |-> <<"1">>, unit |-> <<>>]>> },
      n \in { <<>>, <<Mix>> } }

\* what the awaited RecipeExtractorService.extractFromUrl gives: it throws, or a
\* result with success false and an error (or none), or with success true
ExtractionResults ==
  { [kind |-> "throw"] }
  \cup { [kind |-> "result", success |-> FALSE, error |-> e] : e \in {"", "No recipe found"} }
  \cup { [kind |-> "result", success |-> TRUE, instructions |-> n, ingredients |-> i,
          structuredIngredients |-> x] :
            n \in { Absent, Arr(<<>>), Arr(<<Mix>>) },
            i \in { Absent, Arr(<<>>), Arr(<<S1>>) },
            x \in { Absent, Arr(<<>>), Arr(<<Flour>>) } }

Toast(title, destructive) == [kind |-> "toast", title |-> title, destructive |-> destructive]

RECURSIVE NameOnly(_)
\* (result.ingredients || []).map(ingredient => ({ name: ingredient, amount: '', unit: '' }))
NameOnly(xs) ==
  IF xs = <<>> THEN <<>>
  ELSE <<[name |-> Head(xs), amount |-> <<>>, unit |-> <<>>]>> \o NameOnly(Tail(xs))

InitForm ==
  /\ ReqOff
  /\ ParseOff
  /\ CleanOff
  /\ TwoOff
  /\ ExtraOff
  /\ formData \in FormRecipes
  /\ isExtracting = FALSE
  /\ toast = NoToast
  /\ formPc = "idle"
  /\ attempt = NoAttempt
  /\ inFlight = 0

\* an early return inside the try that leaves without the reset
Finally_SkippedByReturn(result) == IF result.kind = "throw" THEN FALSE ELSE ~result.success

\* finally { setIsExtracting(false) }: isExtracting after any way out of the try
Finally(result) == FALSE

\* the Extract button (disabled while isExtracting or without a URL) is clicked:
\* extractFromWebsite up to its await
ClickExtract ==
  /\ formPc \in {"idle", "calling"}
  /\ ~isExtracting
  /\ formData.websiteUrl
  /\ isExtracting' = TRUE
  /\ formData' = [formData EXCEPT !.ingredients = <<>>, !.instructions = <<>>]
  /\ attempt' = [kind |-> "attempt", ingredients |-> formData.ingredients,
                 instructions |-> formData.instructions, result |-> NoAttempt]
  /\ formPc' = "calling"
  /\ inFlight' = inFlight + 1
  /\ UNCHANGED <<reqVars, parseVars, cleanVars, twoVars, extraVars, toast>>

\* extractFromWebsite from the await on
ExtractReturns ==
  /\ formPc = "calling"
  /\ inFlight > 0
  /\ \E result \in ExtractionResults :
       /\ attempt' = [attempt EXCEPT !.result = result]
       /\ isExtracting' = Finally(result)
       /\ IF result.kind = "throw"
          THEN /\ toast' = Toast("Error", TRUE)
               /\ UNCHANGED formData
          ELSE IF ~result.success
          THEN /\ toast' = Toast("Extraction failed", TRUE)
               /\ UNCHANGED formData
          ELSE LET instrs == OrEmpty(result.instructions)
                   structured == OrEmpty(result.structuredIngredients)
                   fallback == NameOnly(OrEmpty(result.ingredients))
                   setsIngredients == structured # <<>> \/ fallback # <<>>
               IN  /\ formData' = [formData EXCEPT
                        !.instructions = IF instrs # <<>> THEN instrs ELSE @,
                        !.ingredients = IF structured # <<>> THEN structured
                                        ELSE IF fallback # <<>> THEN fallback ELSE @]
                   /\ toast' = IF instrs # <<>> \/ setsIngredients
                               THEN Toast("Recipe extracted successfully!", FALSE)
                               ELSE Toast("Extraction completed", TRUE)
  /\ inFlight' = inFlight - 1
  /\ formPc' = IF inFlight = 1 THEN "idle" ELSE "calling"
  /\ UNCHANGED <<reqVars, parseVars, cleanVars, twoVars, extraVars>>

NextForm == ClickExtract \/ ExtractReturns

SpecForm == InitForm /\ [][NextForm]_vars

-----------------------------------------------------------------------------
(* Two requests served at the same time: the handler on a record of its local *)
(* variables, resumed for one request or the other at every await            *)

\* the local variables of a request that has just come in
Request(u, key) ==
  [pc |-> "start", url |-> u, keyConfigured |-> key, contentToExtract |-> NoText,
   htmlContent |-> Null, jsonLdResult |-> Null, textToAnalyze |-> NoText,
   aiResponse |-> Null, recipeData |-> Null, flatIngredients |-> <<>>,
   flatInstructions |-> <<>>, response |-> NoResponse,
   calls |-> [t \in Targets |-> 0], history |-> [t \in LoggedTargets |-> NoCall]]

Thrown(r, message) == [r EXCEPT !.response = ErrorResponse(500, message), !.pc = "done"]

WithCall(r, target, reply) ==
  [r EXCEPT !.calls[target] = @ + 1,
            !.history = IF target \in LoggedTargets
                        THEN [@ EXCEPT ![target] = Logged(target, reply)] ELSE @]

\* the call the request makes where it stands, "none" when it makes none
Awaited(r) ==
  CASE r.pc = "oembed" -> "oembed"
    [] r.pc = "alt"    -> "alt"
    [] r.pc = "fetch"  -> "page"
    [] r.pc = "nano_wait"  -> "nano"
    [] r.pc = "gpt4o_wait" -> "gpt4o"
    [] r.pc = "refine_ld" -> IF RefineCalls(r.flatIngredients, r.keyConfigured) THEN "refine" ELSE "none"
    [] r.pc = "refine_ai" -> IF RefineCalls(r.flatIngredients, TRUE) THEN "refine" ELSE "none"
    [] OTHER -> "none"

\* the success response of either branch
Structured(r, key, reply) ==
  [(IF reply = NoCall THEN r ELSE WithCall(r, "refine", reply)) EXCEPT
     !.response = SuccessResponse(r.flatIngredients, r.flatInstructions,
                    StructuredOrFallback(refineIngredientsWithAI(r.flatIngredients, key, reply),
                                         r.flatIngredients),
                    FieldTypes(r.jsonLdResult, r.recipeData)),
     !.pc = "done"]

\* the answer of the cascade read and parsed
ReadAnswer(r) ==
  IF ~r.aiResponse.ok
  THEN Thrown(r, IF r.aiResponse.status = 429 THEN "AI API error: 429" ELSE "AI API error: 500")
  ELSE IF ~r.aiResponse.choices THEN Thrown(r, "Cannot read properties of undefined")
  ELSE LET data == JSONparse(StripFences(r.aiResponse.content)) IN
       IF data = ParseError THEN Thrown(r, "Failed to parse recipe data from AI response")
       ELSE IF IsSentinel(data)
       THEN [r EXCEPT !.recipeData = data, !.response = ErrorResponse(400, data.error),
                      !.pc = "done"]
       ELSE [r EXCEPT !.recipeData = data, !.flatIngredients = OrEmpty(data.ingredients),
                      !.flatInstructions = OrEmpty(data.instructions), !.pc = "refine_ai"]

\* the handler from where request r stands to its next await (or its return),
\* given the answer to the call it made (NoCall when it made none)
Handle(r, reply) ==
  CASE r.pc = "start" ->
         IF r.url.kind = "missing" THEN Thrown(r, "URL is required")
         ELSE [r EXCEPT !.pc = IF isYouTubeUrl(r.url) /\ extractVideoId(r.url) # Null
                               THEN "oembed" ELSE "fetch"]
    [] r.pc = "oembed" ->
         LET c == WithCall(r, "oembed", reply) IN
         IF reply.kind = "throw" THEN [c EXCEPT !.pc = "fetch"]
         ELSE IF TriesAlternative(reply) THEN [c EXCEPT !.pc = "alt"]
         ELSE [c EXCEPT !.pc = "fetch", !.contentToExtract = Text("oembed")]
    [] r.pc = "alt" ->
         [WithCall(r, "alt", reply) EXCEPT
            !.contentToExtract = extractDescriptionAlternative(reply), !.pc = "fetch"]
    [] r.pc = "fetch" ->
         LET c == WithCall(r, "page", reply) IN
         IF reply.kind = "throw" THEN Thrown(c, "fetch failed")
         ELSE IF ~reply.ok THEN Thrown(c, "Failed to fetch website")
         ELSE [c EXCEPT !.htmlContent = reply.html, !.pc = "jsonld"]
    [] r.pc = "jsonld" ->
         LET res == extractFromJsonLd(r.htmlContent) IN
         IF UseStructuredData(res)
         THEN [r EXCEPT !.jsonLdResult = res, !.flatIngredients = res.ingredients,
                        !.flatInstructions = res.instructions, !.pc = "refine_ld"]
         ELSE [r EXCEPT !.jsonLdResult = res, !.textToAnalyze = ChooseText(r.contentToExtract),
                        !.pc = "key"]
    [] r.pc = "key" ->
         IF ~r.keyConfigured THEN Thrown(r, "OpenAI API key not configured")
         ELSE [r EXCEPT !.pc = "nano"]
    [] r.pc = "nano" -> [r EXCEPT !.calls["nano"] = @ + 1, !.pc = "nano_wait"]
    [] r.pc = "nano_wait" ->
         [r EXCEPT !.history["nano"] = reply,
                   !.aiResponse = IF reply.kind = "throw" THEN Null ELSE reply, !.pc = "gpt4o"]
    [] r.pc = "gpt4o" ->
         IF NeedsFallback(r.aiResponse)
         THEN [r EXCEPT !.calls["gpt4o"] = @ + 1, !.pc = "gpt4o_wait"]
         ELSE [r EXCEPT !.pc = "read"]
    [] r.pc = "gpt4o_wait" ->
         LET c == [r EXCEPT !.history["gpt4o"] = reply] IN
         IF reply.kind = "throw" THEN Thrown(c, "fetch failed")
         ELSE [c EXCEPT !.aiResponse = reply, !.pc = "read"]
    [] r.pc = "read" -> ReadAnswer(r)
    [] r.pc = "refine_ld" -> Structured(r, r.keyConfigured, reply)
    [] r.pc = "refine_ai" -> Structured(r, TRUE, reply)
    [] OTHER -> r

\* htmlContent declared at module level: a resumed request finds the page the
\* other request has fetched
Closure_ModuleLevelHtml(all, i) ==
  [all[i] EXCEPT !.htmlContent =
     IF \E j \in DOMAIN all : j # i /\ all[j].htmlContent # Null
     THEN all[CHOOSE j \in DOMAIN all : j # i /\ all[j].htmlContent # Null].htmlContent
     ELSE @]

\* the handler declares its variables inside the request callback: a resumed
\* request works on its own
Closure(all, i) == all[i]

RECURSIVE Replay(_, _)
\* the handler run alone on the answers of log
Replay(r, log) == IF log = <<>> THEN r ELSE Replay(Handle(r, Head(log)), Tail(log))

\* the pages and answers of the two requests
PageA == Page(<<ObjectBlock(RecipeNode(<<S1>>, <<Mix>>))>>)
PageB == Page(<<>>)

TwoReplies(target) ==
  CASE target = "none"   -> { NoCall }
    [] target = "oembed" -> { [kind |-> "throw"], [kind |-> "http", ok |-> TRUE, descriptionLength |-> 50] }
    [] target = "alt"    -> { [kind |-> "throw"] }
    [] target = "page"   -> { [kind |-> "http", ok |-> FALSE] }
                              \cup { [kind |-> "http", ok |-> TRUE, html |-> h] : h \in {PageA, PageB} }
    [] target = "refine" -> { [kind |-> "throw"],
                              [kind |-> "http", ok |-> TRUE, status |-> 200, choices |-> TRUE,
                               content |-> Content("none", TRUE, Arr(<<[name |-> Str(<<"f","l","o","u","r">>), amount |-> Absent, unit |-> Absent]>>))] }
    [] OTHER             -> { [kind |-> "http", ok |-> FALSE, status |-> 429],
                              [kind |-> "http", ok |-> TRUE, status |-> 200, choices |-> TRUE,
                               content |-> Content("none", TRUE, Sentinel)],
                              [kind |-> "http", ok |-> TRUE, status |-> 200, choices |-> TRUE,
                               content |-> Content("json", TRUE, RecipeObject("", Arr(<<S2>>), Arr(<<Mix>>)))] }

InitTwo ==
  /\ ReqOff
  /\ ParseOff
  /\ CleanOff
  /\ FormOff
  /\ ExtraOff
  /\ \E key \in BOOLEAN :
       reqs \in [1..2 -> { Request(u, key) : u \in { [kind |-> "page"], [kind |-> "youtube", videoId |-> TRUE] } }]
  /\ logs = [i \in 1..2 |-> <<>>]

\* request i is resumed and runs to its next await
Resume(i) ==
  /\ reqs[i].pc # "done"
  /\ \E reply \in TwoReplies(Awaited(reqs[i])) :
       /\ reqs' = [reqs EXCEPT ![i] = Handle(Closure(reqs, i), reply)]
       /\ logs' = [logs EXCEPT ![i] = Append(@, reply)]
  /\ UNCHANGED <<reqVars, parseVars, cleanVars, formVars, extraVars>>

NextTwo == \E i \in 1..2 : Resume(i)

SpecTwo == InitTwo /\ [][NextTwo]_vars

-----------------------------------------------------------------------------
(* extractFromJsonLd called on its own, on pages with several blocks *)

\* most application/ld+json scripts on a generated page
MaxBlocks == 3

\* none of the operations of the earlier sections is in use
OldOff ==
  /\ ReqOff
  /\ ParseOff
  /\ CleanOff
  /\ FormOff
  /\ TwoOff

\* a block that parses to a JSON string or number
PrimitiveBlock == [kind |-> "primitive"]

\* what a script may hold: text that does not parse, a primitive, a node of
\* another type, Recipe nodes that yield nothing (no lists, or blank entries
\* only), Recipe nodes that yield something, a graph and an array
LdBlocks ==
  { InvalidBlock, PrimitiveBlock, ObjectBlock(ArticleNode),
    ObjectBlock(RecipeNode(<<>>, <<>>)),
    ObjectBlock(RecipeNode(<< <<" ">> >>, << <<>> >>)),
    ObjectBlock(RecipeNode(<<S1>>, <<>>)),
    ObjectBlock(RecipeNode(<<S2>>, <<Mix>>)),
    GraphBlock(<<ArticleNode, RecipeNode(<<S2>>, <<>>)>>, ArticleNode),
    ArrayBlock(<<[kind |-> "string"], UntypedNode(<<>>, <<Mix>>)>>) }

\* instruction lines as sites write them
StepLines ==
  { <<"S","t","e","p"," ","1",":"," ","M","i","x",".">>,
    <<"s","t","e","p","2",")"," ","S","t","i","r">>,
    <<"B","a","k","e",".">> }

\* most instruction lines of a generated recipeInstructions value
MaxSteps == 2

StepLists == UNION { [1..n -> StepLines] : n \in 1..MaxSteps }

RECURSIVE JoinWith(_, _)
\* the lines written as one text with sep between them
JoinWith(xs, sep) ==
  IF Len(xs) = 1 THEN Head(xs) ELSE Head(xs) \o sep \o JoinWith(Tail(xs), sep)

\* the accepted shapes of recipeInstructions: an array of strings; an array of
\* step objects carrying the line as text, as name, or as the elements of a
\* nested itemListElement; one string with the lines on separate lines, with
\* blank lines between them, or as sentences after one another
InstructionValues ==
  { Arr(l) : l \in StepLists }
  \cup { Steps([i \in 1..Len(l) |-> StepObject(Str(l[i]), Absent, Absent)]) : l \in StepLists }
  \cup { Steps([i \in 1..Len(l) |-> StepObject(Absent, Str(l[i]), Absent)]) : l \in StepLists }
  \cup { Steps([i \in 1..Len(l) |->
                  StepObject(Absent, Absent, Steps(<<Str(l[i]), StepObject(Str(Mix), Absent, Absent)>>))]) :
          l \in StepLists }
  \cup { Steps(<<Str(l[1]), Null>>) : l \in StepLists }
  \cup { Str(JoinWith(l, sep)) : l \in StepLists,
                                 sep \in { <<"\n">>, <<"\r", "\n", "\n">>, <<" ">> } }

\* a Recipe node with this recipeInstructions and no ingredients
InstructionNode(raw) ==
  [kind |-> "object", type |-> [kind |-> "string", s |-> "Recipe"],
   recipeIngredient |-> Absent, recipeInstructions |-> raw]

InitJsonLd ==
  /\ OldOff
  /\ TextOff
  /\ SheetOff
  /\ SaveOff
  /\ ldBlocks \in UNION { [1..n -> LdBlocks] : n \in 0..MaxBlocks }
                  \cup { <<ObjectBlock(InstructionNode(v))>> : v \in InstructionValues }
  /\ ldResult = NotExtracted

\* one call of extractFromJsonLd on a page whose scripts hold ldBlocks
ExtractJsonLd ==
  /\ pc = "off"
  /\ ldResult = NotExtracted
  /\ ldResult' = [kind |-> "extracted", result |-> extractFromJsonLd(Page(ldBlocks))]
  /\ UNCHANGED <<reqVars, parseVars, cleanVars, formVars, twoVars, ldBlocks, textVars, sheetVars,
                 saveVars>>

NextJsonLd == ExtractJsonLd

SpecJsonLd == InitJsonLd /\ [][NextJsonLd]_vars

-----------------------------------------------------------------------------
(* intelligentParse: the line-by-line text parser of recipeExtractor.ts *)

\* most lines of a generated text
MaxLines == 3

RECURSIVE Flatten(_)
\* the members of the sequences of a sequence, in order
Flatten(ss) == IF ss = <<>> THEN <<>> ELSE Head(ss) \o Flatten(Tail(ss))

\* line.toLowerCase()
LowerOf(s) == [k \in 1..Len(s) |-> ToLower(s[k])]
ToUpper(c) == IF IsLower(c) THEN UpperCase[CHOOSE i \in 1..26 : LowerCase[i] = c] ELSE c

\* line.includes(w)
Includes(s, w) == IndexOf(s, 1, w, FALSE) > 0

instructionKeywords ==
  <<
    <<"h","e","a","t">>, <<"c","o","o","k">>, <<"b","a","k","e">>,
    <<"f","r","y">>, <<"b","o","i","l">>, <<"s","i","m","m","e","r">>,
    <<"m","i","x">>, <<"s","t","i","r">>, <<"a","d","d">>,
    <<"c","o","m","b","i","n","e">>, <<"w","h","i","s","k">>, <<"b","l","e","n","d">>,
    <<"c","h","o","p">>, <<"d","i","c","e">>, <<"s","l","i","c","e">>,
    <<"m","e","l","t">>, <<"p","o","u","r">>, <<"s","e","a","s","o","n">>,
    <<"t","a","s","t","e">>, <<"s","e","r","v","e">>, <<"g","a","r","n","i","s","h">>,
    <<"p","r","e","h","e","a","t">>, <<"r","e","m","o","v","e">>, <<"s","e","t"," ","a","s","i","d","e">>,
    <<"d","r","a","i","n">>, <<"r","i","n","s","e">>, <<"c","o","v","e","r">>,
    <<"u","n","c","o","v","e","r">>, <<"r","e","d","u","c","e">>, <<"i","n","c","r","e","a","s","e">>,
    <<"t","r","a","n","s","f","e","r">>
  >>

\* instructionKeywords.some(keyword => line.includes(keyword))
HasInstructionWords(lower) ==
  \E k \in 1..Len(instructionKeywords) : Includes(lower, instructionKeywords[k])

\* the units of ingredientRegex in the order the alternation tries them; an
\* optional plural ("cups?") is tried with the s first
IngredientUnits ==
  <<
    <<"c","u","p","s">>, <<"c","u","p">>, <<"c","u","p">>, <<"t","a","b","l","e","s","p","o","o","n","s">>,
    <<"t","a","b","l","e","s","p","o","o","n">>, <<"t","b","s","p">>, <<"t","e","a","s","p","o","o","n","s">>, <<"t","e","a","s","p","o","o","n">>,
    <<"t","s","p">>, <<"o","u","n","c","e","s">>, <<"o","u","n","c","e">>, <<"o","z">>,
    <<"p","o","u","n","d","s">>, <<"p","o","u","n","d">>, <<"l","b","s">>, <<"l","b">>,
    <<"l","b">>, <<"g","r","a","m","s">>, <<"g","r","a","m">>, <<"g">>,
    <<"k","i","l","o","g","r","a","m","s">>, <<"k","i","l","o","g","r","a","m">>, <<"k","g">>, <<"m","i","l","l","i","l","i","t","e","r","s">>,
    <<"m","i","l","l","i","l","i","t","e","r">>, <<"m","l">>, <<"l","i","t","e","r","s">>, <<"l","i","t","e","r">>,
    <<"l">>, <<"c","l","o","v","e","s">>, <<"c","l","o","v","e">>, <<"p","i","e","c","e","s">>,
    <<"p","i","e","c","e">>, <<"s","l","i","c","e","s">>, <<"s","l","i","c","e">>, <<"l","a","r","g","e">>,
    <<"m","e","d","i","u","m">>, <<"s","m","a","l","l">>, <<"w","h","o","l","e">>, <<"c","a","n">>,
    <<"c","a","n","s">>, <<"p","a","c","k","a","g","e">>, <<"p","a","c","k","a","g","e","s">>, <<"j","a","r">>,
    <<"j","a","r","s">>
  >>

\* (.+?)(?=\n|$|,|\(): the shortest text from p on that a line end, a comma or a
\* parenthesis follows; none when the line ends at p
NameAt(s, p) ==
  IF p > Len(s) THEN <<>>
  ELSE LET ends == { e \in p..Len(s) : e = Len(s) \/ s[e + 1] \in {",", "("} }
       IN  <<SubSeq(s, p, CHOOSE e \in ends : \A f \in ends : e <= f)>>

\* (?:of\s+)? then the name: with "of" and its blanks first (longest run of
\* blanks first), then without
OfAt(s, p) ==
  LET r == IF StartsWith(s, p, <<"o","f">>, TRUE) THEN SpaceRun(s, p + 2) ELSE 0
  IN  Flatten([k \in 1..r |-> NameAt(s, p + 2 + (r - k + 1))]) \o NameAt(s, p)

\* \s+ then the rest, longest run first
GapAt(s, p) ==
  LET r == SpaceRun(s, p)
  IN  Flatten([k \in 1..r |-> OfAt(s, p + (r - k + 1))])

\* the unit alternation then the rest: [unit, name] in the order the matcher
\* would find them
UnitAt(s, p) ==
  Flatten([u \in 1..Len(IngredientUnits) |->
    IF StartsWith(s, p, IngredientUnits[u], TRUE)
    THEN LET names == GapAt(s, p + Len(IngredientUnits[u]))
         IN  [j \in 1..Len(names) |->
               [unit |-> SubSeq(s, p, p + Len(IngredientUnits[u]) - 1), name |-> names[j]]]
    ELSE <<>>])

\* (\d+(?:[\/\.\d]*)?)\s* then the unit: digits (longest first), the run of
\* "/", "." and digits (longest first), blanks (longest first)
AmountAt(s, p) ==
  LET d == DigitRun(s, p)
  IN  Flatten([a \in 1..d |->
        LET da == d - a + 1
            r  == RunOf(s, p + da, Digits \cup {"/", "."})
        IN  Flatten([b \in 1..(r + 1) |->
              LET rb == r - b + 1
                  w  == SpaceRun(s, p + da + rb)
              IN  Flatten([c \in 1..(w + 1) |->
                    LET rest == UnitAt(s, p + da + rb + (w - c + 1))
                    IN  [j \in 1..Len(rest) |->
                          [amount |-> SubSeq(s, p, p + da + rb - 1),
                           unit |-> rest[j].unit, name |-> rest[j].name]]])])])

\* \s* then the amount, longest run first
BlanksThenAmount(s, p) ==
  LET w == SpaceRun(s, p)
  IN  Flatten([c \in 1..(w + 1) |-> AmountAt(s, p + (w - c + 1))])

\* (?:\*|-|\<bullet>|\d+\.?)? then the rest: the marker alternatives in their
\* order (the bullet of the source is the three characters its bytes decode to;
\* a number is tried longest first, with its dot first), then no marker
MarkerAt(s, p) ==
  LET d == DigitRun(s, p)
  IN  (IF StartsWith(s, p, <<"*">>, FALSE) THEN BlanksThenAmount(s, p + 1) ELSE <<>>)
      \o (IF StartsWith(s, p, <<"-">>, FALSE) THEN BlanksThenAmount(s, p + 1) ELSE <<>>)
      \o (IF StartsWith(s, p, <<"U+00E2","U+20AC","U+00A2">>, FALSE)
          THEN BlanksThenAmount(s, p + 3) ELSE <<>>)
      \o Flatten([a \in 1..d |->
           LET da == d - a + 1
           IN  (IF p + da <= Len(s) /\ s[p + da] = "." THEN BlanksThenAmount(s, p + da + 1) ELSE <<>>)
               \o BlanksThenAmount(s, p + da)])
      \o BlanksThenAmount(s, p)

\* ingredientRegex.exec on one line from lastIndex 0: (?:^|\n) holds at the start
\* of the line only, so the line has one match or none
NoMatch == [kind |-> "nomatch"]
IngredientMatch(s) ==
  LET w   == SpaceRun(s, 1)
      all == Flatten([c \in 1..(w + 1) |-> MarkerAt(s, 1 + (w - c + 1))])
  IN  IF all = <<>> THEN NoMatch
      ELSE [kind |-> "match", amount |-> Head(all).amount, unit |-> Head(all).unit,
            name |-> Head(all).name]

RECURSIVE KeepNameChars(_)
\* .replace(/[^\w\s-]/g, '')
KeepNameChars(s) ==
  IF s = <<>> THEN <<>>
  ELSE (IF IsWordChar(Head(s)) \/ IsSpace(Head(s)) \/ Head(s) = "-" THEN <<Head(s)>> ELSE <<>>)
         \o KeepNameChars(Tail(s))

\* the ingredients one line adds (lines 192-211)
LineIngredients(originalLine) ==
  LET match == IngredientMatch(originalLine)
  IN  IF match.kind # "match" THEN <<>>
      ELSE LET name == Trim(KeepNameChars(Trim(match.name)))
           IN  IF Len(name) > 1 /\ Len(name) < 50 /\ ~Includes(LowerOf(name), <<"s","t","e","p">>)
               THEN <<[name |-> <<ToUpper(Head(name))>> \o Tail(name),
                       amount |-> Trim(match.amount), unit |-> Trim(match.unit)]>>
               ELSE <<>>

\* line 162: the line is taken as the header of the instructions
IsInstructionsHeader(lower) ==
  \/ Includes(lower, <<"i","n","s","t","r","u","c","t","i","o","n">>)
  \/ Includes(lower, <<"m","e","t","h","o","d">>)
  \/ Includes(lower, <<"d","i","r","e","c","t","i","o","n">>)
  \/ Includes(lower, <<"s","t","e","p","s">>)

\* line 168: the line is taken as the header of the ingredients
IsIngredientsHeader(lower) ==
  \/ Includes(lower, <<"i","n","g","r","e","d","i","e","n","t">>)
  \/ Includes(lower, <<"y","o","u"," ","w","i","l","l"," ","n","e","e","d">>)
  \/ Includes(lower, <<"s","h","o","p","p","i","n","g"," ","l","i","s","t">>)

\* originalLine.replace(/^\d+\.\s*/, '')
StripNumbering(s) ==
  LET d == DigitRun(s, 1)
  IN  IF d > 0 /\ d < Len(s) /\ s[d + 1] = "." THEN Drop(s, d + 1 + SpaceRun(s, d + 2)) ELSE s

\* /^\d+\./.test(originalLine)
IsNumbered(s) == DigitRun(s, 1) > 0 /\ DigitRun(s, 1) < Len(s) /\ s[DigitRun(s, 1) + 1] = "."

\* the instructions one line adds (lines 175-189), given the section flags
LineInstructions(originalLine, inInstructions, inIngredients) ==
  LET lower == LowerOf(originalLine)
  IN  IF inInstructions /\ Len(originalLine) > 10
      THEN IF IsNumbered(originalLine) \/ HasInstructionWords(lower)
           THEN <<StripNumbering(originalLine)>> ELSE <<>>
      ELSE IF ~inIngredients /\ Len(originalLine) > 20 /\ Len(originalLine) < 200
      THEN IF /\ HasInstructionWords(lower)
              /\ \/ \E k \in 1..Len(originalLine) : IsDigit(originalLine[k])
                 \/ IsUpper(originalLine[1])
           THEN <<originalLine>> ELSE <<>>
      ELSE <<>>

\* content.split('\n'): the pieces between one line feed (or the start) and the
\* next (or the end)
SplitNewline(s) ==
  LET feeds == { k \in 1..Len(s) : s[k] = "\n" }
      n     == Cardinality(feeds)
      At(j) == IF j = 0 THEN 0
               ELSE IF j = n + 1 THEN Len(s) + 1
               ELSE CHOOSE k \in feeds : Cardinality({ m \in feeds : m < k }) = j - 1
  IN  [j \in 1..(n + 1) |-> SubSeq(s, At(j - 1) + 1, At(j) - 1)]

RECURSIVE Distinct(_, _)
\* [...new Set(xs)]: the members in order of first appearance; `seen` holds
\* those already kept
Distinct(xs, seen) ==
  IF xs = <<>> THEN <<>>
  ELSE IF Head(xs) \in seen THEN Distinct(Tail(xs), seen)
  ELSE <<Head(xs)>> \o Distinct(Tail(xs), seen \cup {Head(xs)})

\* xs.slice(0, n)
Slice(xs, n) == SubSeq(xs, 1, IF Len(xs) < n THEN Len(xs) ELSE n)

RECURSIVE OfLength(_, _, _)
\* .filter(x => x.length > lo && x.length < hi)
OfLength(xs, lo, hi) ==
  IF xs = <<>> THEN <<>>
  ELSE (IF Len(Head(xs)) > lo /\ Len(Head(xs)) < hi THEN <<Head(xs)>> ELSE <<>>)
         \o OfLength(Tail(xs), lo, hi)

\* ingredients.filter((ing, index, self) => index === self.findIndex(i =>
\*   i.name.toLowerCase() === ing.name.toLowerCase()))
FirstByName(ings) ==
  LET first == { k \in 1..Len(ings) :
                   \A j \in 1..(k - 1) : LowerOf(ings[j].name) # LowerOf(ings[k].name) }
      RECURSIVE Keep(_)
      Keep(k) == IF k > Len(ings) THEN <<>>
                 ELSE (IF k \in first THEN <<ings[k]>> ELSE <<>>) \o Keep(k + 1)
  IN  Keep(1)

\* the section flags after a line (lines 161-172); header tells that the line
\* was taken as a section header and is looked at no further
FlagsAfter_NoClear(lower, inInstructions, inIngredients) ==
  IF IsInstructionsHeader(lower)
  THEN [header |-> TRUE, inInstructionsSection |-> TRUE, inIngredientsSection |-> inIngredients]
  ELSE IF IsIngredientsHeader(lower)
  THEN [header |-> TRUE, inInstructionsSection |-> inInstructions, inIngredientsSection |-> TRUE]
  ELSE [header |-> FALSE, inInstructionsSection |-> inInstructions,
        inIngredientsSection |-> inIngredients]

FlagsAfter(lower, inInstructions, inIngredients) ==
  IF IsInstructionsHeader(lower)
  THEN [header |-> TRUE, inInstructionsSection |-> TRUE, inIngredientsSection |-> FALSE]
  ELSE IF IsIngredientsHeader(lower)
  THEN [header |-> TRUE, inInstructionsSection |-> FALSE, inIngredientsSection |-> TRUE]
  ELSE [header |-> FALSE, inInstructionsSection |-> inInstructions,
        inIngredientsSection |-> inIngredients]

\* lines of the texts the parser is given: the two headers, an instruction in
\* two spellings, a sentence that mentions the method, ingredient lines and a
\* numbered step
TextLinePool ==
  { <<"I","n","g","r","e","d","i","e","n","t","s",":">>,
    <<"I","n","s","t","r","u","c","t","i","o","n","s">>,
    <<"M","i","x"," ","t","h","e"," ","f","l","o","u","r"," ","w","e","l","l",".">>,
    <<"M","I","X"," ","T","H","E"," ","F","L","O","U","R"," ","W","E","L","L",".">>,
    <<"S","t","i","r"," ","w","e","l","l"," ","u","s","i","n","g"," ","t","h","e"," ","m","e","t","h","o","d"," ","a","b","o","v","e",".">>,
    <<"2"," ","c","u","p","s"," ","f","l","o","u","r",","," ","s","i","f","t","e","d">>,
    <<"1","."," ","B","a","k","e"," ","f","o","r"," ","2","0"," ","m","i","n","u","t","e","s"," ","u","n","t","i","l"," ","g","o","l","d","e","n",".">>,
    <<"-"," ","1","/","2"," ","t","s","p"," ","o","f"," ","S","a","l","t">> }

Texts ==
  { <<>> } \cup { JoinWith(ls, <<"\n">>) : ls \in UNION { [1..n -> TextLinePool] : n \in 1..MaxLines } }

NoParseResult == [kind |-> "none"]

InitText ==
  /\ OldOff
  /\ LdOff
  /\ SheetOff
  /\ SaveOff
  /\ textContent \in Texts
  /\ textPc = "start"
  /\ textLines = <<>>
  /\ lineIndex = 0
  /\ inInstructionsSection = FALSE
  /\ inIngredientsSection = FALSE
  /\ foundInstructions = <<>>
  /\ foundIngredients = <<>>
  /\ flagTrace = <<>>
  /\ parseResult = NoParseResult

\* intelligentParse up to its loop: the lines, trimmed, without the empty ones
SplitContent ==
  /\ textPc = "start"
  /\ textLines' = MapTrimNonEmpty(SplitNewline(textContent))
  /\ lineIndex' = 1
  /\ textPc' = "loop"
  /\ UNCHANGED <<reqVars, parseVars, cleanVars, formVars, twoVars, ldVars, sheetVars,
                 saveVars, textContent,
                 inInstructionsSection, inIngredientsSection, foundInstructions,
                 foundIngredients, flagTrace, parseResult>>

\* one pass of the loop over the lines
ConsumeLine ==
  /\ textPc = "loop"
  /\ lineIndex <= Len(textLines)
  /\ LET originalLine == textLines[lineIndex]
         after == FlagsAfter(LowerOf(originalLine), inInstructionsSection, inIngredientsSection)
     IN  /\ inInstructionsSection' = after.inInstructionsSection
         /\ inIngredientsSection' = after.inIngredientsSection
         /\ flagTrace' = Append(flagTrace, [inInstructionsSection |-> after.inInstructionsSection,
                                            inIngredientsSection |-> after.inIngredientsSection])
         /\ IF after.header
            THEN UNCHANGED <<foundInstructions, foundIngredients>>
            ELSE /\ foundInstructions' = foundInstructions \o
                      LineInstructions(originalLine, inInstructionsSection, inIngredientsSection)
                 /\ foundIngredients' =
                      IF inIngredientsSection \/ (~inInstructionsSection /\ Len(foundIngredients) < 20)
                      THEN foundIngredients \o LineIngredients(originalLine)
                      ELSE foundIngredients
  /\ lineIndex' = lineIndex + 1
  /\ UNCHANGED <<reqVars, parseVars, cleanVars, formVars, twoVars, ldVars, sheetVars,
                 saveVars, textContent,
                 textPc, textLines, parseResult>>

\* after the loop: the lists without repetitions, cut to their caps
FinishParse ==
  /\ textPc = "loop"
  /\ lineIndex > Len(textLines)
  /\ parseResult' =
       [kind |-> "parsed",
        instructions |-> Slice(OfLength(Distinct(foundInstructions, {}), 10, 300), 15),
        ingredients |-> Slice(FirstByName(foundIngredients), 20)]
  /\ textPc' = "done"
  /\ UNCHANGED <<reqVars, parseVars, cleanVars, formVars, twoVars, ldVars, sheetVars,
                 saveVars, textContent,
                 textLines, lineIndex, inInstructionsSection, inIngredientsSection,
                 foundInstructions, foundIngredients, flagTrace>>

NextText == SplitContent \/ ConsumeLine \/ FinishParse

SpecText == InitText /\ [][NextText]_vars

-----------------------------------------------------------------------------
(* import-recipes-from-sheets: import runs over one spreadsheet and one database *)

\* most data rows of a generated sheet
MaxRows == 2

\* first cells of the data rows: not a URL, a page URL with a blank before
\* it, a video URL
SheetCells ==
  { <<"a",".","c","o","m">>,
    <<" ","h","t","t","p",":","/","/","a">>,
    <<"h","t","t","p","s",":","/","/","y","o","u","t","u",".","b","e","/","y">> }

\* values of the sheet: none at all, or a header row and data rows
Sheets ==
  { <<>> } \cup { <<<<"u","r","l">>>> \o rs : rs \in UNION { [1..n -> SheetCells] : n \in 0..MaxRows } }

\* rows.slice(1)
DataRows(rows) == IF rows = <<>> THEN <<>> ELSE Tail(rows)

\* !url || !url.startsWith('http'), url the trimmed cell
InvalidUrl(u) == u = <<>> \/ ~StartsWith(u, 1, <<"h","t","t","p">>, FALSE)

\* url.includes('youtube.com') || url.includes('youtu.be')
IsVideoUrl(u) ==
  Includes(u, <<"y","o","u","t","u","b","e",".","c","o","m">>) \/ Includes(u, <<"y","o","u","t","u",".","b","e">>)

\* an import run that has not been started
IdleRun ==
  [pc |-> "idle", row |-> 0, url |-> <<>>, imported |-> 0, skipped |-> 0, failed |-> 0,
   structuredIngredients |-> FALSE, recipeTitle |-> "none", newRecipe |-> 0,
   response |-> NoResponse]

\* the rows of `recipes` the filter website_url.eq.url,youtube_url.eq.url selects
Existing(table, u) ==
  { k \in 1..Len(table) : table[k].website_url = u \/ table[k].youtube_url = u }

\* upsert({ url, status: 'pending' }, { onConflict: 'url' })
Upsert(table, u) ==
  IF \E k \in 1..Len(table) : table[k].url = u
  THEN [k \in 1..Len(table) |->
          IF table[k].url = u THEN [table[k] EXCEPT !.status = "pending"] ELSE table[k]]
  ELSE Append(table, [url |-> u, status |-> "pending", recipe_id |-> 0])

\* update({ status, ... }).eq('id', urlRecord.id)
Mark(table, u, status, id) ==
  [k \in 1..Len(table) |->
     IF table[k].url = u THEN [table[k] EXCEPT !.status = status, !.recipe_id = id]
     ELSE table[k]]

\* the row is counted as skipped, failed or imported, and the loop goes on
Counted(run, counter) ==
  [run EXCEPT !.pc = "loop",
              !.imported = IF counter = "imported" THEN @ + 1 ELSE @,
              !.skipped  = IF counter = "skipped" THEN @ + 1 ELSE @,
              !.failed   = IF counter = "failed" THEN @ + 1 ELSE @]

\* an exception that leaves the row without a count
Caught_NotCounted(run) == [run EXCEPT !.pc = "loop"]

\* catch (error) { failed++ } around the body of the loop
Caught(run) == Counted(run, "failed")

InitSheet ==
  /\ OldOff
  /\ LdOff
  /\ TextOff
  /\ SaveOff
  /\ sheetRows \in Sheets
  /\ runs = [r \in 1..2 |-> IdleRun]
  /\ recipes = <<>>
  /\ importedUrls = <<>>

\* the handler up to the loop: configuration, request body and the sheet
StartRun(r) ==
  /\ runs[r].pc = "idle"
  /\ \E outcome \in {"ok", "error"} :
       runs' = [runs EXCEPT ![r] =
         IF outcome = "error"
         THEN [@ EXCEPT !.pc = "done", !.response = [kind |-> "response", status |-> 500, success |-> FALSE]]
         ELSE IF sheetRows = <<>>
         THEN [@ EXCEPT !.pc = "done",
                        !.response = [kind |-> "response", status |-> 200, success |-> TRUE,
                                      imported |-> 0, skipped |-> 0, failed |-> 0]]
         ELSE [@ EXCEPT !.pc = "loop"]]
  /\ UNCHANGED <<sheetRows, recipes, importedUrls>>
  /\ UNCHANGED <<reqVars, parseVars, cleanVars, formVars, twoVars, ldVars, textVars, saveVars>>

\* the head of the loop: the next row, or the response after the last one
NextRow(r) ==
  /\ runs[r].pc = "loop"
  /\ runs' = [runs EXCEPT ![r] =
       IF @.row = Len(DataRows(sheetRows))
       THEN [@ EXCEPT !.pc = "done",
                      !.response = [kind |-> "response", status |-> 200, success |-> TRUE,
                                    imported |-> runs[r].imported,
                                    skipped |-> runs[r].skipped,
                                    failed |-> runs[r].failed]]
       ELSE LET u == Trim(DataRows(sheetRows)[@.row + 1])
            IN  IF InvalidUrl(u)
                THEN Counted([@ EXCEPT !.row = @ + 1, !.url = u], "skipped")
                ELSE [@ EXCEPT !.row = @ + 1, !.url = u, !.pc = "check"]]
  /\ UNCHANGED <<sheetRows, recipes, importedUrls>>
  /\ UNCHANGED <<reqVars, parseVars, cleanVars, formVars, twoVars, ldVars, textVars, saveVars>>

\* the select on recipes is answered: maybeSingle gives an error for more than
\* one row
CheckReturns(r) ==
  /\ runs[r].pc = "check"
  /\ \E outcome \in {"ok", "error", "throw"} :
       runs' = [runs EXCEPT ![r] =
         IF outcome = "throw" THEN Caught(@)
         ELSE IF outcome = "error" \/ Cardinality(Existing(recipes, @.url)) > 1
         THEN Counted(@, "failed")
         ELSE IF Existing(recipes, @.url) # {} THEN Counted(@, "skipped")
         ELSE [@ EXCEPT !.pc = "upsert"]]
  /\ UNCHANGED <<sheetRows, recipes, importedUrls>>
  /\ UNCHANGED <<reqVars, parseVars, cleanVars, formVars, twoVars, ldVars, textVars, saveVars>>

\* the upsert into imported_recipe_urls is answered
UpsertReturns(r) ==
  /\ runs[r].pc = "upsert"
  /\ \E outcome \in {"ok", "error", "throw"} :
       /\ runs' = [runs EXCEPT ![r] =
            IF outcome = "throw" THEN Caught(@)
            ELSE IF outcome = "error" THEN Counted(@, "failed")
            ELSE [@ EXCEPT !.pc = "invoke"]]
       /\ importedUrls' = IF outcome = "ok" THEN Upsert(importedUrls, runs[r].url)
                          ELSE importedUrls
  /\ UNCHANGED <<sheetRows, recipes>>
  /\ UNCHANGED <<reqVars, parseVars, cleanVars, formVars, twoVars, ldVars, textVars, saveVars>>

\* extract-recipe is answered: an invocation error or success:false, or a
\* success with or without structured ingredients
InvokeReturns(r) ==
  /\ runs[r].pc = "invoke"
  /\ \E outcome \in {"throw", "error", "with", "without"} :
       runs' = [runs EXCEPT ![r] =
         IF outcome = "throw" THEN Caught(@)
         ELSE IF outcome = "error" THEN [@ EXCEPT !.pc = "mark_failed"]
         ELSE [@ EXCEPT !.structuredIngredients = (outcome = "with"),
                        !.recipeTitle = "url",
                        !.pc = IF IsVideoUrl(runs[r].url) THEN "video" ELSE "insert"]]
  /\ UNCHANGED <<sheetRows, recipes, importedUrls>>
  /\ UNCHANGED <<reqVars, parseVars, cleanVars, formVars, twoVars, ldVars, textVars, saveVars>>

\* the title of a video: from the video's data when the lookup gives one
VideoDataReturns(r) ==
  /\ runs[r].pc = "video"
  /\ \E outcome \in {"title", "none"} :
       runs' = [runs EXCEPT ![r] =
         [@ EXCEPT !.recipeTitle = IF outcome = "title" THEN "video" ELSE @, !.pc = "insert"]]
  /\ UNCHANGED <<sheetRows, recipes, importedUrls>>
  /\ UNCHANGED <<reqVars, parseVars, cleanVars, formVars, twoVars, ldVars, textVars, saveVars>>

\* the insert into recipes is answered
InsertRecipeReturns(r) ==
  /\ runs[r].pc = "insert"
  /\ \E outcome \in {"ok", "error", "throw"} :
       /\ runs' = [runs EXCEPT ![r] =
            IF outcome = "throw" THEN Caught(@)
            ELSE IF outcome = "error" THEN [@ EXCEPT !.pc = "mark_failed"]
            ELSE [@ EXCEPT !.newRecipe = Len(recipes) + 1,
                           !.pc = IF runs[r].structuredIngredients THEN "ingredients"
                                  ELSE "mark_success"]]
       /\ recipes' = IF outcome = "ok"
                     THEN Append(recipes,
                            [website_url |-> runs[r].url,
                             youtube_url |-> IF IsVideoUrl(runs[r].url) THEN runs[r].url ELSE <<>>,
                             title |-> runs[r].recipeTitle, ingredients |-> FALSE])
                     ELSE recipes
  /\ UNCHANGED <<sheetRows, importedUrls>>
  /\ UNCHANGED <<reqVars, parseVars, cleanVars, formVars, twoVars, ldVars, textVars, saveVars>>

\* the update to status 'failed' is answered; its result is not looked at
MarkFailedReturns(r) ==
  /\ runs[r].pc = "mark_failed"
  /\ \E outcome \in {"ok", "error", "throw"} :
       /\ runs' = [runs EXCEPT ![r] = IF outcome = "throw" THEN Caught(@) ELSE Counted(@, "failed")]
       /\ importedUrls' = IF outcome = "ok" THEN Mark(importedUrls, runs[r].url, "failed", 0)
                          ELSE importedUrls
  /\ UNCHANGED <<sheetRows, recipes>>
  /\ UNCHANGED <<reqVars, parseVars, cleanVars, formVars, twoVars, ldVars, textVars, saveVars>>

\* the insert into ingredients is answered; an error is logged only
InsertIngredientsReturns(r) ==
  /\ runs[r].pc = "ingredients"
  /\ \E outcome \in {"ok", "error", "throw"} :
       /\ runs' = [runs EXCEPT ![r] =
            IF outcome = "throw" THEN Caught(@) ELSE [@ EXCEPT !.pc = "mark_success"]]
       /\ recipes' = IF outcome = "ok"
                     THEN [recipes EXCEPT ![runs[r].newRecipe].ingredients = TRUE]
                     ELSE recipes
  /\ UNCHANGED <<sheetRows, importedUrls>>
  /\ UNCHANGED <<reqVars, parseVars, cleanVars, formVars, twoVars, ldVars, textVars, saveVars>>

\* the update to status 'success' is answered; its result is not looked at
MarkSuccessReturns(r) ==
  /\ runs[r].pc = "mark_success"
  /\ \E outcome \in {"ok", "error", "throw"} :
       /\ runs' = [runs EXCEPT ![r] = IF outcome = "throw" THEN Caught(@) ELSE Counted(@, "imported")]
       /\ importedUrls' = IF outcome = "ok"
                          THEN Mark(importedUrls, runs[r].url, "success", runs[r].newRecipe)
                          ELSE importedUrls
  /\ UNCHANGED <<sheetRows, recipes>>
  /\ UNCHANGED <<reqVars, parseVars, cleanVars, formVars, twoVars, ldVars, textVars, saveVars>>

NextSheet ==
  \E r \in 1..2 :
    \/ StartRun(r)
    \/ NextRow(r)
    \/ CheckReturns(r)
    \/ UpsertReturns(r)
    \/ InvokeReturns(r)
    \/ VideoDataReturns(r)
    \/ InsertRecipeReturns(r)
    \/ MarkFailedReturns(r)
    \/ InsertIngredientsReturns(r)
    \/ MarkSuccessReturns(r)

SpecSheet == InitSheet /\ [][NextSheet]_vars

-----------------------------------------------------------------------------
(* useRecipes.ts: saveRecipe against the recipes and ingredients tables *)

\* most ingredients of a recipe that is saved or stored
MaxSaved == 2

\* ids of the recipe handed to saveRecipe: none, a temporary one, a stored one
SavedIds ==
  { <<>>,
    <<"t","e","m","p","-","1">>,
    <<"r","1">> }

StoredId == <<"r","1">>

OtherId == <<"r","2">>

IngredientNames == {"flour", "salt"}

\* ingredient lists of at most MaxSaved names
NameLists == UNION { [1..n -> IngredientNames] : n \in 0..MaxSaved }

\* !recipe.id || recipe.id.startsWith('temp-')
IsNew(id) == id = <<>> \/ StartsWith(id, 1, <<"t","e","m","p","-">>, FALSE)

\* recipe.ingredients.map(ingredient => ({ recipe_id, ... }))
IngredientRowsOf(id, names) == [k \in 1..Len(names) |-> [recipe_id |-> id, name |-> names[k]]]

\* the rows of `ingredients` with the recipe_id
RowsOf(table, id) == SelectSeq(table, LAMBDA row : row.recipe_id = id)

\* delete().eq('recipe_id', id)
DeleteRowsOf(table, id) == SelectSeq(table, LAMBDA row : row.recipe_id # id)

\* a failed insert of the new rows that brings the old rows back
InsertFailed_Restore(table, before) == before

\* a failed insert leaves the table as it is
InsertFailed(table, before) == table

InitSave ==
  /\ OldOff
  /\ LdOff
  /\ TextOff
  /\ SheetOff
  /\ savePc = "idle"
  /\ \E id \in SavedIds, names \in NameLists, title \in {"old", "new"} :
       saveArg = [id |-> id, title |-> title, ingredients |-> names]
  /\ recipeTitles = [id \in {StoredId, OtherId} |-> "old"]
  /\ \E names \in NameLists :
       ingredientRows = IngredientRowsOf(StoredId, names) \o IngredientRowsOf(OtherId, <<"salt">>)
  /\ rowsBefore = <<>>
  /\ listed = "stale"

\* saveRecipe is called: the recipe insert or the recipe update is sent
CallSave ==
  /\ savePc = "idle"
  /\ savePc' = IF IsNew(saveArg.id) THEN "insert_recipe" ELSE "update_recipe"
  /\ rowsBefore' = ingredientRows
  /\ UNCHANGED <<saveArg, recipeTitles, ingredientRows, listed>>
  /\ UNCHANGED <<reqVars, parseVars, cleanVars, formVars, twoVars, ldVars, textVars, sheetVars>>

\* the insert into recipes is answered; the new row gets a fresh id
InsertNewRecipeReturns ==
  /\ savePc = "insert_recipe"
  /\ \E outcome \in {"ok", "error"} :
       /\ savePc' = IF outcome = "error" THEN "thrown"
                    ELSE IF Len(saveArg.ingredients) > 0 THEN "insert_created" ELSE "fetch"
       /\ recipeTitles' = IF outcome = "ok"
                          THEN [id \in DOMAIN recipeTitles \cup {<<"n">>} |->
                                  IF id = <<"n">> THEN saveArg.title ELSE recipeTitles[id]]
                          ELSE recipeTitles
  /\ UNCHANGED <<saveArg, ingredientRows, rowsBefore, listed>>
  /\ UNCHANGED <<reqVars, parseVars, cleanVars, formVars, twoVars, ldVars, textVars, sheetVars>>

\* the insert of the ingredients of the created recipe is answered
InsertCreatedIngredientsReturns ==
  /\ savePc = "insert_created"
  /\ \E outcome \in {"ok", "error"} :
       /\ savePc' = IF outcome = "error" THEN "thrown" ELSE "fetch"
       /\ ingredientRows' = IF outcome = "ok"
                            THEN ingredientRows \o IngredientRowsOf(<<"n">>, saveArg.ingredients)
                            ELSE ingredientRows
  /\ UNCHANGED <<saveArg, recipeTitles, rowsBefore, listed>>
  /\ UNCHANGED <<reqVars, parseVars, cleanVars, formVars, twoVars, ldVars, textVars, sheetVars>>

\* the update of the recipe row is answered; the delete is sent on success
UpdateRecipeReturns ==
  /\ savePc = "update_recipe"
  /\ \E outcome \in {"ok", "error"} :
       /\ savePc' = IF outcome = "error" THEN "thrown" ELSE "delete"
       /\ recipeTitles' = IF outcome = "ok" /\ saveArg.id \in DOMAIN recipeTitles
                          THEN [recipeTitles EXCEPT ![saveArg.id] = saveArg.title]
                          ELSE recipeTitles
  /\ UNCHANGED <<saveArg, ingredientRows, rowsBefore, listed>>
  /\ UNCHANGED <<reqVars, parseVars, cleanVars, formVars, twoVars, ldVars, textVars, sheetVars>>

\* the delete of the old ingredient rows is answered; its result is not looked at
DeleteReturns ==
  /\ savePc = "delete"
  /\ \E outcome \in {"ok", "error", "throw"} :
       /\ savePc' = IF outcome = "throw" THEN "thrown"
                    ELSE IF Len(saveArg.ingredients) > 0 THEN "insert_new" ELSE "fetch"
       /\ ingredientRows' = IF outcome = "ok" THEN DeleteRowsOf(ingredientRows, saveArg.id)
                            ELSE ingredientRows
  /\ UNCHANGED <<saveArg, recipeTitles, rowsBefore, listed>>
  /\ UNCHANGED <<reqVars, parseVars, cleanVars, formVars, twoVars, ldVars, textVars, sheetVars>>

\* the insert of the new ingredient rows is answered
InsertNewReturns ==
  /\ savePc = "insert_new"
  /\ \E outcome \in {"ok", "error"} :
       /\ savePc' = IF outcome = "error" THEN "thrown" ELSE "fetch"
       /\ ingredientRows' = IF outcome = "ok"
                            THEN ingredientRows \o IngredientRowsOf(saveArg.id, saveArg.ingredients)
                            ELSE InsertFailed(ingredientRows, rowsBefore)
  /\ UNCHANGED <<saveArg, recipeTitles, rowsBefore, listed>>
  /\ UNCHANGED <<reqVars, parseVars, cleanVars, formVars, twoVars, ldVars, textVars, sheetVars>>

\* fetchRecipes catches its own errors: the list is refreshed or left stale
FetchReturns ==
  /\ savePc = "fetch"
  /\ \E outcome \in {"ok", "error"} :
       listed' = IF outcome = "ok" THEN "fresh" ELSE listed
  /\ savePc' = "returned"
  /\ UNCHANGED <<saveArg, recipeTitles, ingredientRows, rowsBefore>>
  /\ UNCHANGED <<reqVars, parseVars, cleanVars, formVars, twoVars, ldVars, textVars, sheetVars>>

NextSave ==
  \/ CallSave
  \/ InsertNewRecipeReturns
  \/ InsertCreatedIngredientsReturns
  \/ UpdateRecipeReturns
  \/ DeleteReturns
  \/ InsertNewReturns
  \/ FetchReturns

SpecSave == InitSave /\ [][NextSave]_vars

-----------------------------------------------------------------------------
(* Claims about one extraction request (Spec) *)

\* the page was fetched and carries no usable structured data
FetchedWithoutStructuredData ==
  htmlContent # Null /\ extractFromJsonLd(htmlContent) = Null

\* a call to a model that was made and failed: an exception or a non-2xx answer
CallFailed(reply) ==
  IF reply.kind = "throw" THEN TRUE
  ELSE IF reply.kind = "http" THEN ~reply.ok
  ELSE FALSE

\* a 2xx answer whose content is `value` once the fences are stripped
Answers(reply, value) ==
  IF reply.kind # "http" THEN FALSE
  ELSE IF ~reply.ok THEN FALSE
  ELSE IF ~reply.choices THEN FALSE
  ELSE JSONparse(StripFences(reply.content)) = value

RateLimited == [kind |-> "http", ok |-> FALSE, status |-> 429]

\* C1: structured-data precedence. When the fetched HTML holds a qualifying
\* JSON-LD recipe node, no call to either model of the cascade is made, and the
\* response is a success whose ingredients and instructions are exactly the lists
\* derived from the JSON-LD, with or without video text and with or without a key.
C1_StructuredDataPrecedence ==
  (htmlContent # Null /\ extractFromJsonLd(htmlContent) # Null)
    => /\ calls.nano = 0
       /\ calls.gpt4o = 0
       /\ pc = "done" =>
            /\ response.success
            /\ response.ingredients = extractFromJsonLd(htmlContent).ingredients
            /\ response.instructions = extractFromJsonLd(htmlContent).instructions

\* a video request with resolved video text and a key, answered from JSON-LD
C1_Witness ==
  /\ pc = "done"
  /\ contentToExtract # NoText
  /\ keyConfigured
  /\ htmlContent # Null
  /\ extractFromJsonLd(htmlContent) # Null
  /\ response.success
  /\ response.ingredients = <<S1, S2>>
  /\ calls.refine = 1

\* C2: graceful degradation. With the page fetched, no structured data found and
\* both models of the cascade failing, the request still ends in a success.
C2_GracefulDegradation ==
  (/\ pc = "done"
   /\ FetchedWithoutStructuredData
   /\ CallFailed(history.nano)
   /\ CallFailed(history.gpt4o))
    => response.success

\* C3: the error outcome (status 500) is reached only when the url is missing or
\* the page fetch failed.
C3_ErrorOnlyFromInputOrFetch ==
  (pc = "done" /\ ~response.success /\ response.status = 500)
    => (url.kind = "missing" \/ htmlContent = Null)

\* C4: when the first model answers 2xx with content that is no JSON, the next
\* model of the cascade is attempted.
C4_UnparsableContentCascades ==
  (pc = "done" /\ Answers(history.nano, ParseError))
    => calls.gpt4o = 1

\* C5: no recipe found. When the accepted answer of the cascade is the sentinel
\* error object, the response is a failure with the sentinel's message and status
\* 400 (not the 500 of transport and parse failures), and no structuring call is made.
C5_NoRecipeFound ==
  (pc = "done" /\ aiResponse # Null /\ Answers(aiResponse, Sentinel))
    => /\ response = ErrorResponse(400, "No recipe found")
       /\ calls.refine = 0

\* the second model, tried after the first failed, answered the sentinel
C5_Witness ==
  /\ pc = "done"
  /\ CallFailed(history.nano)
  /\ Answers(history.gpt4o, Sentinel)
  /\ response.status = 400
  /\ ~response.success

\* C6: quota exhaustion cascades. Once the first model has answered 429, the first
\* model is never called again, and the second model is called exactly once
\* before the handler goes on.
C6_QuotaCascades ==
  history.nano = RateLimited
    => /\ calls.nano = 1
       /\ calls.gpt4o <= 1
       /\ pc # "gpt4o" => calls.gpt4o = 1

\* the first model answered 429 and the request ended in a success of the second
C6_Witness ==
  /\ pc = "done"
  /\ history.nano = RateLimited
  /\ calls.nano = 1
  /\ calls.gpt4o = 1
  /\ response.success

\* C7: order and length preservation. Every success response has as many
\* structured ingredients as flat ingredients (an answer of the structuring model
\* that has not one entry per input string is not accepted).
C7_OrderAndLength ==
  (pc = "done" /\ response.success)
    => Len(response.structuredIngredients) = Len(response.ingredients)

\* the structuring failed: no key on the JSON-LD branch, or a call that threw,
\* answered non-2xx, empty content, unparsable JSON, a non-array or an empty array
RefineCallFailed(reply) ==
  IF reply.kind = "throw" THEN TRUE
  ELSE IF reply.kind # "http" THEN FALSE
  ELSE IF ~reply.ok THEN TRUE
  ELSE IF ~reply.choices THEN TRUE
  ELSE IF reply.content.empty THEN TRUE
  ELSE IF JSONparse(StripJsonFence(reply.content)) = ParseError THEN TRUE
  ELSE IF JSONparse(StripJsonFence(reply.content)).kind # "array" THEN TRUE
  ELSE JSONparse(StripJsonFence(reply.content)).items = <<>>

StructuringFailed ==
  \/ (pc = "done" /\ jsonLdResult # Null /\ ~keyConfigured)
  \/ RefineCallFailed(history.refine)

LookupFailed(entry) ==
  IF entry = NoCall THEN FALSE
  ELSE IF entry.kind = "throw" THEN TRUE
  ELSE IF ~entry.ok THEN TRUE
  ELSE ~entry.description

\* the resolver chain of a video URL is over and every lookup it made failed
ResolverFailed ==
  /\ isYouTubeUrl(url)
  /\ pc \notin {"start", "oembed", "alt"}
  /\ \/ extractVideoId(url) = Null
     \/ (LookupFailed(history.oembed) /\ history.alt = NoCall)
     \/ (LookupFailed(history.oembed) /\ LookupFailed(history.alt))

LookupResolved(entry) ==
  IF entry = NoCall THEN FALSE
  ELSE IF entry.kind = "throw" THEN FALSE
  ELSE IF ~entry.ok THEN FALSE
  ELSE entry.description

\* the page was fetched and the structured-data check has run
Checked == htmlContent # Null /\ pc # "jsonld"

\* C15: a request with a URL fetches the page, a video request after its
\* resolver attempt; the structured-data check runs on the fetched HTML before
\* a text is chosen; without structured data the text sent to the model is the
\* video description if and only if one was resolved, and else the normalized
\* page HTML.
C15_FetchThenCheckThenText ==
  /\ (url.kind # "missing" /\ pc = "done") => calls.page = 1
  /\ (calls.page = 1 /\ isYouTubeUrl(url) /\ extractVideoId(url) # Null) => calls.oembed = 1
  /\ htmlContent # Null => calls.page = 1
  /\ Checked => jsonLdResult = extractFromJsonLd(htmlContent)
  /\ textToAnalyze # NoText => (Checked /\ jsonLdResult = Null)
  /\ (Checked /\ jsonLdResult = Null) =>
       /\ LookupResolved(history.oembed) => textToAnalyze = Text("oembed")
       /\ (~LookupResolved(history.oembed) /\ LookupResolved(history.alt)) =>
            textToAnalyze \in {Text("meta"), Text("jsonld")}
       /\ (~LookupResolved(history.oembed) /\ ~LookupResolved(history.alt)) =>
            textToAnalyze = Text("page")
  /\ calls.nano = 1 => textToAnalyze # NoText

\* a video request whose description came from the canonical page, on a page
\* without structured data: the description was sent to the model
C15_Witness ==
  /\ isYouTubeUrl(url)
  /\ calls.page = 1
  /\ jsonLdResult = Null
  /\ LookupResolved(history.alt)
  /\ textToAnalyze = Text("meta")
  /\ calls.nano = 1

\* a call to a model has been issued and is not over
InFlight(target) == calls[target] > 0 /\ history[target] = NoCall

\* C18: the cascade is sequential and stops at the first success: the second
\* model is called only after the call of the first is over and has failed (it
\* threw or answered non-2xx), the two calls are never in flight together, and
\* after a 2xx answer of the first model the second is never called.
C18_CascadeSequential ==
  /\ ~(InFlight("nano") /\ InFlight("gpt4o"))
  /\ calls.gpt4o > 0 => (calls.nano = 1 /\ CallFailed(history.nano))
  /\ (history.nano.kind = "http" /\ ~CallFailed(history.nano)) => calls.gpt4o = 0
  /\ calls.nano <= 1 /\ calls.gpt4o <= 1

\* the first model answered 2xx and the request went on to its end without a
\* call of the second
C18_Witness ==
  /\ pc = "done"
  /\ history.nano.kind = "http"
  /\ history.nano.ok
  /\ calls.nano = 1
  /\ calls.gpt4o = 0
  /\ response.success

\* C19: every response carries a boolean success; a failure carries a non-empty
\* error and the status 400 (only when no recipe was found) or 500; a success
\* has the status 200 and arrays for ingredients, instructions and
\* structuredIngredients (the last is an array wherever it comes from; the JSON
\* types of the other two are response.types).
C19_ResponseShape ==
  response # NoResponse =>
    /\ response.success \in BOOLEAN
    /\ ~response.success =>
         /\ response.error # ""
         /\ response.status \in {400, 500}
         /\ response.status = 400 => (recipeData # Null /\ IsSentinel(recipeData))
    /\ response.success =>
         /\ response.status = 200
         /\ response.types.ingredients = "array"
         /\ response.types.instructions = "array"

RECURSIVE DocumentOrder(_)
\* the nodes of a page in document order: block after block, and in a block
\* with @graph the members of the graph before the wrapper object
DocumentOrder(blocks) ==
  IF blocks = <<>> THEN <<>>
  ELSE Candidates(Head(blocks)) \o DocumentOrder(Tail(blocks))

\* the node qualifies (its type is Recipe or it carries recipe fields) and has at
\* least one non-empty ingredient or instruction
Qualifies(node) ==
  IF node.kind # "object" THEN FALSE
  ELSE /\ IsRecipeType(node.type) \/ Truthy(node.recipeIngredient) \/ Truthy(node.recipeInstructions)
       /\ \/ normalizeIngredients(node.recipeIngredient) # <<>>
          \/ normalizeInstructions(node.recipeInstructions) # <<>>

\* C20: first match wins, nothing is merged: when the fetched page has
\* qualifying structured-data nodes, the ingredients and the instructions found
\* are both those of the first qualifying node in document order, whatever the
\* later nodes carry.
C20_FirstMatchWins ==
  Checked =>
    LET nodes == DocumentOrder(htmlContent.blocks)
        hits  == { k \in 1..Len(nodes) : Qualifies(nodes[k]) }
    IN  IF hits = {} THEN jsonLdResult = Null
        ELSE LET first == nodes[CHOOSE k \in hits : \A j \in hits : k <= j]
             IN  /\ jsonLdResult # Null
                 /\ jsonLdResult.ingredients = normalizeIngredients(first.recipeIngredient)
                 /\ jsonLdResult.instructions = normalizeInstructions(first.recipeInstructions)

\* a page whose @graph holds a recipe with ingredients only and whose wrapper
\* object is a recipe with other ingredients and instructions: the graph
\* member's ingredients were returned, with no instructions
C20_Witness ==
  /\ pc = "done"
  /\ htmlContent = Page(<<GraphBlock(<<ArticleNode, RecipeNode(<<S1>>, <<>>)>>, RecipeNode(<<S2>>, <<Mix>>))>>)
  /\ jsonLdResult # Null
  /\ response.success
  /\ response.ingredients = <<S1>>
  /\ response.instructions = <<>>

\* C12: every structured ingredient of a success response has a non-empty name,
\* whatever the flat ingredient string it was made from, also a string that is
\* only a quantity or only a quantity and a unit.
C12_NameNeverEmpty ==
  (response # NoResponse /\ response.success)
    => \A i \in 1..Len(response.structuredIngredients) :
         response.structuredIngredients[i].name # <<>>

-----------------------------------------------------------------------------
(* Claims about the deterministic ingredient parser (SpecParse) *)

\* C9: the leading quantity is matched in the order mixed number, range, vulgar
\* fraction, decimal, integer, fraction glyph: the amount of a parsed line is the
\* whole quantity it begins with, and for a line that begins with a mixed number
\* ("1 1/2 cups sugar") the whole mixed number, never its integer part alone.
C9_QuantityPriority ==
  (parsed # NotParsed /\ parts.qty.shape # "none")
    => parsed.amount = parts.qty.text

\* a line beginning with the mixed number "1 1/2", followed by a unit, was parsed
C9_Witness ==
  /\ parsed # NotParsed
  /\ parts.qty.shape = "mixed"
  /\ parts.qty.text = <<"1"," ","1","/","2">>
  /\ parts.unit = <<"c","u","p","s">>
  /\ parsed.amount = <<"1"," ","1","/","2">>

\* C10: a line "<quantity> <unit> <rest>" whose unit token is a word of the unit
\* vocabulary parses into amount = the quantity, unit = the whole unit token as
\* written and name = the rest without a leading "of".
C10_QuantityUnitName ==
  (parsed # NotParsed /\ parts.qty.shape # "none" /\ parts.unit # <<>> /\ parts.gap >= 1)
    => parsed = [name |-> parts.rest.name, amount |-> parts.qty.text, unit |-> parts.unit]

\* C11: when the line begins with no quantity, the whole line (bullets stripped)
\* is the name and amount and unit are both empty, also when the line begins
\* with a word of the unit vocabulary such as "pinch" or "can".
C11_NoQuantityAllName ==
  (parsed # NotParsed /\ parts.qty.shape = "none")
    => \/ parsed = [name |-> StripBullets(Trim(line)), amount |-> <<>>, unit |-> <<>>]
       \* read with the leading "of" of line 427 taken off the name
       \/ parsed = [name |-> StripOf(StripBullets(Trim(line))), amount |-> <<>>, unit |-> <<>>]

-----------------------------------------------------------------------------
(* Claims about the HTML normalizer (SpecClean) *)

\* C13: cleanHtmlContent is idempotent: called on its own output it returns that
\* output unchanged, also when the first pass decoded entities into "<", ">"
\* or "&".
C13_Idempotent ==
  (cleaned # NotCleaned /\ cleaned.passes = 2) => cleaned.text = cleaned.input

-----------------------------------------------------------------------------
(* Claims about the recipe form (SpecForm) *)

\* the last extraction started from the form is over and failed: the service
\* threw or answered success false
ExtractionFailed ==
  /\ formPc = "idle"
  /\ attempt # NoAttempt
  /\ IF attempt.result.kind = "throw" THEN TRUE ELSE ~attempt.result.success

\* C16: when an extraction started from the form fails, the form shows a
\* notification and the ingredients and instructions of the form are the same
\* after the attempt as before it.
C16_FailureLeavesFields ==
  ExtractionFailed =>
    /\ toast # NoToast
    /\ formData.ingredients = attempt.ingredients
    /\ formData.instructions = attempt.instructions

-----------------------------------------------------------------------------
(* Claims about two requests served at the same time (SpecTwo) *)

-----------------------------------------------------------------------------
(* Claims about extractFromJsonLd (SpecJsonLd) *)

RECURSIVE Parsable(_)
\* the blocks of a page without those that JSON.parse rejects
Parsable(blocks) ==
  IF blocks = <<>> THEN <<>>
  ELSE (IF Head(blocks).kind = "invalid" THEN <<>> ELSE <<Head(blocks)>>) \o Parsable(Tail(blocks))

\* C21: a malformed JSON-LD block is skipped on its own: the extractor's result
\* on a sequence of blocks is its result on the sequence without the blocks
\* that do not parse, and it is null only when no node of a parsable block
\* qualifies with a non-empty list (a Recipe-typed node that yields nothing
\* does not stop the scan).
C21_MalformedSkipped ==
  ldResult # NotExtracted =>
    LET nodes == DocumentOrder(Parsable(ldBlocks))
    IN  /\ ldResult.result = extractFromJsonLd(Page(Parsable(ldBlocks)))
        /\ (ldResult.result = Null) <=> (\A k \in 1..Len(nodes) : ~Qualifies(nodes[k]))

\* a block that does not parse, then a Recipe node that yields nothing, then a
\* Recipe block: the last one was found
C21_Witness ==
  /\ ldBlocks = <<InvalidBlock, ObjectBlock(RecipeNode(<<>>, <<>>)), ObjectBlock(RecipeNode(<<S2>>, <<Mix>>))>>
  /\ ldResult # NotExtracted
  /\ ldResult.result # Null
  /\ ldResult.result.ingredients = <<S2>>

\* the line carries a leading "Step N" prefix: /^Step\s*\d+[:.)-]?\s*/i matches
HasStepPrefix(s) == StripStep(s) # Trim(s)

\* C22: leading "Step N:" prefixes are stripped from every resulting
\* instruction line, in every accepted shape of recipeInstructions: an array of
\* strings, an array of step objects, and one string split into lines or
\* sentences.
C22_StepPrefixStripped ==
  (ldResult # NotExtracted /\ ldResult.result # Null) =>
    \A i \in 1..Len(ldResult.result.instructions) :
      ~HasStepPrefix(ldResult.result.instructions[i])

-----------------------------------------------------------------------------
(* Claims about intelligentParse (SpecText) *)

\* the flags before line k was consumed
FlagsBefore(k) ==
  IF k = 1 THEN [inInstructionsSection |-> FALSE, inIngredientsSection |-> FALSE]
  ELSE flagTrace[k - 1]

\* C23: the in-instructions-section flag and the in-ingredients-section flag
\* are mutually exclusive after every consumed line: they are never both true,
\* and a line recognized as the header of one kind leaves that flag set and the
\* other clear.
C23_FlagsExclusive ==
  /\ ~(inInstructionsSection /\ inIngredientsSection)
  /\ \A k \in 1..Len(flagTrace) :
       LET lower == LowerOf(textLines[k])
       IN  /\ ~(flagTrace[k].inInstructionsSection /\ flagTrace[k].inIngredientsSection)
           /\ (IsInstructionsHeader(lower) /\ ~IsIngredientsHeader(lower)) =>
                (flagTrace[k].inInstructionsSection /\ ~flagTrace[k].inIngredientsSection)
           /\ (IsIngredientsHeader(lower) /\ ~IsInstructionsHeader(lower)) =>
                (flagTrace[k].inIngredientsSection /\ ~flagTrace[k].inInstructionsSection)

\* the ingredients header, then the instructions header: the parser went from
\* the ingredients section to the instructions section
C23_Witness ==
  /\ Len(flagTrace) = 2
  /\ textLines[1] = <<"I","n","g","r","e","d","i","e","n","t","s",":">>
  /\ textLines[2] = <<"I","n","s","t","r","u","c","t","i","o","n","s">>
  /\ flagTrace[1] = [inInstructionsSection |-> FALSE, inIngredientsSection |-> TRUE]
  /\ flagTrace[2] = [inInstructionsSection |-> TRUE, inIngredientsSection |-> FALSE]

\* the test of lines 180-186 for an instruction-like sentence: more than 20 and
\* fewer than 200 characters, an instruction keyword, and a digit or a capital
\* first letter
IsInstructionSentence(l) ==
  /\ Len(l) > 20
  /\ Len(l) < 200
  /\ HasInstructionWords(LowerOf(l))
  /\ (\E k \in 1..Len(l) : IsDigit(l[k])) \/ IsUpper(l[1])

\* C24: a line is a section header only if it has a header word and is short
\* enough to be a heading: a long instruction sentence that merely contains a
\* word such as "steps" or "method" leaves the section flags as they were and
\* is not dropped from the instructions (what the line would add is gathered).
C24_LongSentenceNotHeader ==
  \A k \in 1..Len(flagTrace) :
    IsInstructionSentence(textLines[k]) =>
      /\ flagTrace[k] = FlagsBefore(k)
      /\ \A j \in 1..Len(LineInstructions(textLines[k], FlagsBefore(k).inInstructionsSection,
                                          FlagsBefore(k).inIngredientsSection)) :
           \E m \in 1..Len(foundInstructions) :
             foundInstructions[m] = LineInstructions(textLines[k], FlagsBefore(k).inInstructionsSection,
                                                     FlagsBefore(k).inIngredientsSection)[j]

\* C25: the instructions intelligentParse returns never hold two entries that
\* are equal when compared without regard to case.
C25_NoDuplicateInstructions ==
  parseResult # NoParseResult =>
    \A i, j \in 1..Len(parseResult.instructions) :
      i # j => LowerOf(parseResult.instructions[i]) # LowerOf(parseResult.instructions[j])

-----------------------------------------------------------------------------
(* Claims about the stages of one extraction request (Spec) *)

\* the positions of the handler in the order of its text
StageOrder ==
  <<"start", "oembed", "alt", "fetch", "jsonld", "key", "nano", "nano_wait",
    "gpt4o", "gpt4o_wait", "read", "refine_ld", "refine_ai", "done">>
Rank(p) == CHOOSE k \in 1..Len(StageOrder) : StageOrder[k] = p

\* C26: no stage is retried and the request ends with exactly one response:
\* each outbound call (metadata lookup, canonical-page lookup, page fetch, each
\* model of the cascade, the structuring call) is issued at most once; every
\* step, also one on which a call failed, leaves the handler at a later stage or
\* at its return, never at the same stage again; the handler has returned
\* exactly when there is a response, and a response is not replaced.
C26_NoRetryOneResponse ==
  /\ [](\A t \in Targets : calls[t] <= 1)
  /\ []((pc = "done") <=> (response # NoResponse))
  /\ [][/\ Rank(pc') > Rank(pc)
        /\ response # NoResponse => response' = response]_vars

\* both models of the cascade failed: each was called once, after one fetch of
\* the page, and the request was answered
C26_Witness ==
  /\ pc = "done"
  /\ response # NoResponse
  /\ calls.page = 1
  /\ calls.nano = 1 /\ CallFailed(history.nano)
  /\ calls.gpt4o = 1 /\ CallFailed(history.gpt4o)

\* the rows a run has behind it: all up to its row, less the one it is working on
RowsFinished(run) == IF run.pc \in {"idle", "loop", "done"} THEN run.row ELSE run.row - 1

\* C27: in a run of the sheet import every data row is counted exactly once:
\* while the run goes on imported + skipped + failed is the number of rows it
\* has behind it, and the response of a completed run reports counts that add
\* up to the number of data rows, whatever rows are invalid, stored already,
\* hit a database error, fail to extract or throw.
C27_EveryRowCounted ==
  \A r \in DOMAIN runs :
    /\ runs[r].imported + runs[r].skipped + runs[r].failed = RowsFinished(runs[r])
    /\ (runs[r].pc = "done" /\ runs[r].response.status = 200) =>
         /\ runs[r].row = Len(DataRows(sheetRows))
         /\ sheetRows # <<>> =>
              /\ runs[r].response.imported = runs[r].imported
              /\ runs[r].response.skipped = runs[r].skipped
              /\ runs[r].response.failed = runs[r].failed
         /\ runs[r].response.imported + runs[r].response.skipped + runs[r].response.failed
              = Len(DataRows(sheetRows))

\* a completed run over two data rows, one imported and one failed, while the
\* other run is still at work
C27_Witness ==
  /\ runs # <<>>
  /\ runs[1].pc = "done"
  /\ runs[1].response.status = 200
  /\ Len(DataRows(sheetRows)) = 2
  /\ runs[1].imported = 1
  /\ runs[1].failed = 1
  /\ runs[2].pc \notin {"idle", "done"}

\* C28: the sheet import stores at most one recipe per URL, also for rows that
\* repeat a URL and for runs that overlap.
C28_OneRecipePerUrl ==
  \A k1, k2 \in 1..Len(recipes) :
    recipes[k1].website_url = recipes[k2].website_url => k1 = k2

\* C29: when saveRecipe throws on the update path, the ingredient rows stored
\* for the recipe are the ones stored before the call.
C29_IngredientsKept ==
  (savePc = "thrown" /\ ~IsNew(saveArg.id)) =>
     RowsOf(ingredientRows, saveArg.id) = RowsOf(rowsBefore, saveArg.id)

\* C30: in the recipe form isExtracting is true exactly while a call of
\* extractFromUrl is outstanding, whatever the outcome of the calls before
\* (success, failure response, thrown error), and the form never waits for
\* more than one call.
C30_ExtractingWhileInFlight ==
  /\ inFlight \in {0, 1}
  /\ isExtracting <=> (inFlight = 1)
  /\ (formPc = "calling") <=> isExtracting

\* a second extraction is outstanding after a first one threw
C30_Witness ==
  /\ attempt # NoAttempt
  /\ attempt.result = NoAttempt
  /\ toast = Toast("Error", TRUE)
  /\ isExtracting
  /\ inFlight = 1

====
